---- MODULE Spec2Model ----
(***************************************************************************)
(* A model of the goftp client session (package goftp): the control        *)
(* channel (send / receive / cmd), the passive-mode negotiation with its   *)
(* background task and timeout, the TLS upgrade, Login and the operations  *)
(* that open a data channel (Stor, StorFrom, Retr, RetrFrom, List, List2). *)
(*                                                                         *)
(* Text is modelled as a sequence of one-character strings, so that        *)
(* strings.HasPrefix, the regular expression of Pasv, strings.Split and    *)
(* strconv.Atoi are computed on characters as the code computes them.      *)
(* The trailing "\r\n" of a reply line is left out of the session model.   *)
(***************************************************************************)
EXTENDS Integers, Sequences, FiniteSets, TLC

VARIABLES
    op,         \* the operation the caller runs, or ran last ("none" at first)
    pc,         \* the caller's position in op ("idle" at first, "done": op returned)
    arg,        \* the operation's argument (RetrFrom/StorFrom: offset; AuthTLS: config)
    conn,       \* ftp.conn: "open" | "closed"
    ctls,       \* what ftp.conn is: Plain, or a tls.Client wrapper with that config
    tlsconfig,  \* ftp.tlsconfig (NilCfg: nil)
    srvq,       \* commands written to the control channel the server has not answered
    net,        \* replies that arrived on the socket, not yet read by ftp.reader
    buf,        \* replies in ftp.reader's buffer, not yet consumed
    srvXfer,    \* the server's transfer awaiting its completion reply ("none","up","down")
    line,       \* the operation's local variable line
    err,        \* the operation's local variable err
    port,       \* the operation's local variable port
    pconn,      \* the operation's data connection
    task,       \* position of the background task started by Pasv
    tres,       \* the result of ftp.cmd inside the task, before it is assigned
    perr,       \* Pasv's named result err, shared by the caller and the task
    pport,      \* Pasv's named result port, shared by the caller and the task
    doneChan,   \* number of values in doneChan (capacity 1)
    pasvRet,    \* history: what the last Pasv returned and by which branch
    tr,         \* history: the events of the running (or last) operation
    fnIn,       \* input of the function under test (PasvSpec)
    fnOut       \* its result (PasvSpec)

vars == <<op, pc, arg, conn, ctls, tlsconfig, srvq, net, buf, srvXfer, line, err,
          port, pconn, task, tres, perr, pport, doneChan, pasvRet, tr,
          fnIn, fnOut>>

-----------------------------------------------------------------------------
(* Text helpers *)

Digits == <<"0", "1", "2", "3", "4", "5", "6", "7", "8", "9">>

IsDigit(c) == \E i \in 1..10 : Digits[i] = c

DigitVal(c) == (CHOOSE i \in 1..10 : Digits[i] = c) - 1

\* strings.HasPrefix
HasPrefix(s, p) == Len(s) >= Len(p) /\ SubSeq(s, 1, Len(p)) = p

\* strings.Index for a one-character pattern; 0 when absent
IndexOf(s, c) ==
    IF \E i \in 1..Len(s) : s[i] = c
    THEN CHOOSE i \in 1..Len(s) : s[i] = c /\ \A j \in 1..(i - 1) : s[j] # c
    ELSE 0

\* strings.LastIndex for a one-character pattern; 0 when absent
LastIndexOf(s, c) ==
    IF \E i \in 1..Len(s) : s[i] = c
    THEN CHOOSE i \in 1..Len(s) : s[i] = c /\ \A j \in (i + 1)..Len(s) : s[j] # c
    ELSE 0

\* strings.Split(s, ","): one more field than there are commas
RECURSIVE Split(_)
Split(s) ==
    LET i == IndexOf(s, ",")
    IN  IF i = 0 THEN <<s>>
        ELSE <<SubSeq(s, 1, i - 1)>> \o Split(SubSeq(s, i + 1, Len(s)))

RECURSIVE DecVal(_)
DecVal(s) ==
    IF s = <<>> THEN 0 ELSE 10 * DecVal(SubSeq(s, 1, Len(s) - 1)) + DigitVal(s[Len(s)])

\* strconv.Atoi with the error dropped (l1, _ := strconv.Atoi(..)): an optional
\* sign and decimal digits; 0 on a syntax error.
Atoi(s) ==
    LET signed == s # <<>> /\ s[1] \in {"+", "-"}
        body   == IF signed THEN Tail(s) ELSE s
    IN  IF body = <<>> \/ \E i \in 1..Len(body) : ~IsDigit(body[i]) THEN 0
        ELSE IF signed /\ s[1] = "-" THEN 0 - DecVal(body) ELSE DecVal(body)

\* fmt.Sprintf("%d", n) for n >= 0: what a server writes into its 227 reply
RECURSIVE Itoa(_)
Itoa(n) == IF n < 10 THEN <<Digits[n + 1]>> ELSE Itoa(n \div 10) \o <<Digits[(n % 10) + 1]>>

RECURSIVE Join(_)
Join(fs) ==
    IF fs = <<>> THEN <<>>
    ELSE IF Len(fs) = 1 THEN fs[1]
    ELSE fs[1] \o <<",">> \o Join(Tail(fs))

-----------------------------------------------------------------------------
(* Errors and status prefixes *)

Nil == [k |-> "nil", text |-> <<>>]
ErrNew(text) == [k |-> "msg", text |-> text]      \* errors.New(text)
ErrIO == [k |-> "io", text |-> <<>>]              \* a failed read, write or dial
ErrPasvBadAnswer == [k |-> "PasvBadAnswer", text |-> <<>>]
ErrPasvTimeout == [k |-> "PasvTimeout", text |-> <<>>]

StatusOK == <<"2", "0", "0">>
StatusFileOK == <<"1", "5", "0">>
StatusClosingDataConnection == <<"2", "2", "6">>
StatusPasv == <<"2", "2", "7">>
StatusAuth == <<"2", "3", "4">>
StatusUser == <<"3", "3", "1">>
StatusLoggedIn == <<"2", "3", "0">>
StatusActionOK == <<"2", "5", "0">>
StatusActionPending == <<"3", "5", "0">>
StatusPathCreated == <<"2", "5", "7">>
StatusSystemType == <<"2", "1", "5">>
StatusConnectionClosing == <<"2", "2", "1">>
StatusSize == <<"2", "1", "3">>
ErrSyntax == [k |-> "syntax", text |-> <<>>]      \* the error of strconv.Atoi
Panic == [k |-> "panic", text |-> <<>>]           \* a run-time panic instead of a return

-----------------------------------------------------------------------------
(* Pasv: the reply parser of the background task *)

\* regexp `\((.*)\)` on one line: leftmost "(" and, greedily, the last ")".
\* The result is <<>> for no match, else <<group>>.
PasvMatch(l) ==
    LET i == IndexOf(l, "(")
        j == LastIndexOf(l, ")")
    IN  IF i = 0 \/ j < i THEN <<>> ELSE <<SubSeq(l, i + 1, j - 1)>>

\* The two strings Pasv converts: s[len(s)-2] and s[len(s)-1]; the variant
\* takes the first two fields.
PasvFieldsFirstTwo(s) == <<s[1], s[2]>>

PasvFields(s) == <<s[Len(s) - 1], s[Len(s)]>>

\* The least number of comma-separated fields Pasv accepts.
PasvMinFields == 2

\* Lines 431-447: the port and error Pasv derives from an accepted 227 reply.
PasvParse(l) ==
    LET res == PasvMatch(l)
    IN  IF res = <<>> THEN [port |-> 0, err |-> ErrPasvBadAnswer]
        ELSE LET s == Split(res[1])
             IN  IF Len(s) < PasvMinFields THEN [port |-> 0, err |-> ErrPasvBadAnswer]
                 ELSE LET f  == PasvFields(s)
                          l1 == Atoi(f[1])
                          l2 == Atoi(f[2])
                      IN  [port |-> l1 * 256 + l2, err |-> Nil]

-----------------------------------------------------------------------------
(* Bounds and inputs of the session model *)

\* Most replies and unanswered commands left on the control channel when the
\* caller starts another operation.
MaxBacklog == 1

Plain == "plain"
NilCfg == "nil"
Configs == {NilCfg, "cfgA", "cfgB"}       \* the *tls.Config values given to AuthTLS
Offsets == {0, 7, 12}                        \* the offsets given to RetrFrom / StorFrom

DataOps == {"Stor", "StorFrom", "Retr", "RetrFrom", "List", "List2"}
TransferOps == {"Stor", "StorFrom", "Retr", "RetrFrom"}
NavOps == {"Cwd", "Mkd", "Rmd", "Dele", "Rename", "Pwd", "Syst", "Size", "Type", "Noop",
           "Quit"}
Ops == DataOps \cup {"Login", "AuthTLS"} \cup NavOps

NoArg == [cfg |-> NilCfg, off |-> 0]
Args(o) ==
    IF o \in {"RetrFrom", "StorFrom"} THEN {[cfg |-> NilCfg, off |-> n] : n \in Offsets}
    ELSE IF o = "AuthTLS" THEN {[cfg |-> c, off |-> 0] : c \in Configs}
    ELSE {NoArg}

Cmd(verb, a) == [verb |-> verb, arg |-> a]
NoText == <<>>

\* What the server may answer
Reply(code) == code \o <<" ">>
Err500 == Reply(<<"5", "0", "0">>)
PasvGood == Reply(StatusPasv) \o <<"(">> \o
            Join(<<Itoa(10), Itoa(0), Itoa(0), Itoa(1), Itoa(4), Itoa(1)>>) \o <<")">>
PasvTwoNumbers == Reply(StatusPasv) \o <<"(">> \o Join(<<Itoa(4), Itoa(1)>>) \o <<")">>
PasvNoTuple == Reply(StatusPasv)
Replies(c) ==
    CASE c.verb = "TYPE" -> {Reply(StatusOK), Err500}
      [] c.verb = "PASV" -> {PasvGood, PasvTwoNumbers, PasvNoTuple, Err500}
      [] c.verb \in {"STOR", "RETR", "MLSD", "LIST"} -> {Reply(StatusFileOK), Err500}
      [] c.verb = "REST" -> {Reply(StatusActionPending), Err500}
      [] c.verb \in {"CWD", "RMD", "DELE", "RNTO"} -> {Reply(StatusActionOK), Err500}
      [] c.verb = "RNFR" -> {Reply(StatusActionPending), Err500}
      [] c.verb = "MKD" -> {Reply(StatusPathCreated), Err500}
      [] c.verb = "PWD" -> {Reply(StatusPathCreated) \o <<"\"", "/", "\"">>,
                            Reply(StatusPathCreated), Err500}
      [] c.verb = "SYST" -> {Reply(StatusSystemType) \o <<"U">>, Reply(StatusSystemType),
                             Err500}
      [] c.verb = "SIZE" -> {Reply(StatusSize) \o Itoa(7), Reply(StatusSize) \o <<"x">>,
                             Err500}
      [] c.verb = "QUIT" -> {Reply(StatusConnectionClosing), Err500}
      [] c.verb = "USER" -> {Reply(StatusUser), Reply(StatusLoggedIn), Err500}
      [] c.verb = "PASS" -> {Reply(StatusLoggedIn), Err500}
      [] c.verb = "AUTH" -> {Reply(StatusAuth), Err500}
      [] OTHER -> {Reply(StatusOK), Err500}
Completions == {Reply(StatusClosingDataConnection), Reply(<<"4", "5", "1">>)}

NoConn == [st |-> "none", port |-> 0, tls |-> Plain]
NoPasvRet == [n |-> 0, timeout |-> FALSE, err |-> Nil, port |-> 0]
NoRes == [line |-> NoText, err |-> Nil]

-----------------------------------------------------------------------------
(* The control channel *)

Ev(by, e, v, l) == [by |-> by, e |-> e, v |-> v, l |-> l, t |-> ctls]

\* A write (writer.Flush) succeeds on an open connection. A tls.Client with a
\* nil configuration fails its handshake on the first write or read
\* (crypto/tls: neither ServerName nor InsecureSkipVerify).
SendOK == conn = "open" /\ ctls # NilCfg

\* ftp.send: format the command, write it, flush.
Send(by, c) ==
    /\ srvq' = IF SendOK THEN Append(srvq, c) ELSE srvq
    /\ tr' = Append(tr, Ev(by, IF SendOK THEN "send" ELSE "sendfail", c.verb, c.arg))
    /\ UNCHANGED <<net, buf, srvXfer>>

\* ftp.receiveLine returns: from the buffer, from the socket, or with a failure.
CanRecv == buf # <<>> \/ net # <<>> \/ conn # "open" \/ ctls = NilCfg
RecvFails == buf = <<>> /\ (conn # "open" \/ ctls = NilCfg)
RecvLine == IF buf # <<>> THEN Head(buf) ELSE Head(net)

\* ftp.receive (discard) and ftp.receiveNoDiscard (~discard) of one reply: a
\* read on an empty buffer takes everything that arrived; ReadAndDiscard
\* empties the buffer after a successful read.
Recv(by, role, discard) ==
    /\ CanRecv
    /\ IF RecvFails
       THEN /\ tr' = Append(tr, Ev(by, "recvfail", role, NoText))
            /\ UNCHANGED <<net, buf>>
       ELSE /\ tr' = Append(tr, Ev(by, "recv", role, RecvLine))
            /\ net' = IF buf # <<>> THEN net ELSE <<>>
            /\ buf' = IF discard THEN <<>>
                      ELSE IF buf # <<>> THEN Tail(buf) ELSE Tail(net)
    /\ UNCHANGED <<srvq, srvXfer>>

\* ftp.conn.Close(), or the connection lost: nothing more is written to the
\* socket or read from it; what ftp.reader has buffered stays readable.
Closed ==
    /\ conn' = "closed"
    /\ srvq' = <<>>
    /\ net' = <<>>
    /\ srvXfer' = "none"
    /\ UNCHANGED buf

pasvVars == <<task, tres, perr, pport, doneChan, pasvRet>>
fnVars == <<fnIn, fnOut>>
chanVars == <<conn, ctls, tlsconfig>>
srvVars == <<srvq, net, buf, srvXfer>>

\* The caller goes on / returns e (a deferred pconn.Close() runs on return).
Goto(l) == pc' = l /\ UNCHANGED <<err, pconn>>

\* A return on which no deferred pconn.Close() runs, to compare against.
ReturnNoDefer(e) ==
    /\ pc' = "done"
    /\ err' = e
    /\ pconn' = pconn

Return(e) ==
    /\ pc' = "done"
    /\ err' = e
    /\ pconn' = IF pconn.st = "open" THEN [pconn EXCEPT !.st = "closed"] ELSE pconn

\* if err := ftp.send(..); err != nil { return err }
SendStep(at, c, next) ==
    /\ pc = at
    /\ Send("op", c)
    /\ IF SendOK THEN Goto(next) ELSE Return(ErrIO)
    /\ UNCHANGED <<op, arg, line, port, chanVars, pasvVars, fnVars>>

\* ftp.cmd after its send: receive, compare the reply with expects.
CmdRecvStep(at, expects, next) ==
    /\ pc = at
    /\ Recv("op", "cmd", TRUE)
    /\ IF RecvFails THEN Return(ErrIO)
       ELSE IF ~HasPrefix(RecvLine, expects) THEN Return(ErrNew(RecvLine))
       ELSE Goto(next)
    /\ UNCHANGED <<op, arg, line, port, chanVars, pasvVars, fnVars>>

-----------------------------------------------------------------------------
(* Pasv: lines 421-459 *)

\* doneChan := make(chan int, 1); go func() {...}()
PasvGo ==
    /\ pc = "pasv"
    /\ task \in {"none", "end"}
    /\ task' = "send"
    /\ tres' = NoRes
    /\ perr' = Nil
    /\ pport' = 0
    /\ doneChan' = 0
    /\ pc' = "select"
    /\ UNCHANGED <<op, arg, line, err, port, pconn, pasvRet, tr, chanVars, srvVars, fnVars>>

\* case _ = <-doneChan: and the return after the select
PasvSelectDone(next) ==
    /\ pc = "select"
    /\ doneChan = 1
    /\ doneChan' = 0
    /\ port' = pport
    /\ err' = perr
    /\ pasvRet' = [n |-> 1, timeout |-> FALSE, err |-> perr, port |-> pport]
    /\ pc' = IF perr # Nil THEN "done" ELSE next
    /\ UNCHANGED <<op, arg, line, pconn, task, tres, perr, pport, tr, chanVars, srvVars,
                   fnVars>>

\* case <-time.After(time.Second * 10): err = errors.New("PasvTimeout")
PasvSelectTimeout ==
    /\ pc = "select"
    /\ perr' = ErrPasvTimeout
    /\ pc' = "pasv_close"
    /\ UNCHANGED <<op, arg, line, err, port, pconn, task, tres, pport, doneChan, pasvRet,
                   tr, chanVars, srvVars, fnVars>>

\* ftp.Close() in the timeout branch; ftp.conn.Close() on the nil ftp.conn that
\* Quit leaves is a nil dereference
PasvClose ==
    /\ pc = "pasv_close"
    /\ IF conn = "nil"
       THEN pc' = "panic" /\ UNCHANGED <<conn, srvVars>>
       ELSE Closed /\ pc' = "pasv_return"
    /\ UNCHANGED <<op, arg, line, err, port, pconn, ctls, tlsconfig, pasvVars, tr, fnVars>>

\* return of the timeout branch: the named results as they are at that moment
PasvReturn(next) ==
    /\ pc = "pasv_return"
    /\ port' = pport
    /\ err' = perr
    /\ pasvRet' = [n |-> 1, timeout |-> TRUE, err |-> perr, port |-> pport]
    /\ pc' = IF perr # Nil THEN "done" ELSE next
    /\ UNCHANGED <<op, arg, line, pconn, task, tres, perr, pport, doneChan, tr, chanVars,
                   srvVars, fnVars>>

\* port, err := ftp.Pasv(); if err != nil { return err }
Pasv(next) ==
    \/ PasvGo
    \/ PasvSelectDone(next)
    \/ PasvSelectTimeout
    \/ PasvClose
    \/ PasvReturn(next)

taskFrame == <<op, pc, arg, line, err, port, pconn, doneChan, pasvRet, chanVars, fnVars>>

\* The background task: ftp.cmd("227", "PASV"), its send
TaskSend ==
    /\ task = "send"
    /\ Send("task", Cmd("PASV", NoText))
    /\ IF SendOK THEN task' = "recv" /\ UNCHANGED tres
       ELSE task' = "assign" /\ tres' = [line |-> NoText, err |-> ErrIO]
    /\ UNCHANGED <<perr, pport>>
    /\ UNCHANGED taskFrame

\* ... its receive and the comparison with "227"
TaskRecv ==
    /\ task = "recv"
    /\ Recv("task", "cmd", TRUE)
    /\ tres' = IF RecvFails THEN [line |-> NoText, err |-> ErrIO]
               ELSE IF ~HasPrefix(RecvLine, StatusPasv)
                    THEN [line |-> RecvLine, err |-> ErrNew(RecvLine)]
               ELSE [line |-> RecvLine, err |-> Nil]
    /\ task' = "assign"
    /\ UNCHANGED <<perr, pport>>
    /\ UNCHANGED taskFrame

\* line, err = ftp.cmd(..): the write of Pasv's err; if err != nil { return }
TaskAssign ==
    /\ task = "assign"
    /\ perr' = tres.err
    /\ task' = IF tres.err # Nil THEN "signal" ELSE "parse"
    /\ UNCHANGED <<tres, pport, tr, srvVars>>
    /\ UNCHANGED taskFrame

\* lines 431-447: err = errors.New("PasvBadAnswer") or port = l1<<8 + l2
TaskParse ==
    /\ task = "parse"
    /\ LET r == PasvParse(tres.line)
       IN  IF r.err # Nil THEN perr' = r.err /\ UNCHANGED pport
           ELSE pport' = r.port /\ UNCHANGED perr
    /\ task' = "signal"
    /\ UNCHANGED <<tres, tr, srvVars>>
    /\ UNCHANGED taskFrame

\* A completion signal on a channel without buffer, which is taken only by a
\* caller waiting in the select, to compare against.
TaskSignalUnbuffered ==
    /\ task = "signal"
    /\ pc = "select"
    /\ doneChan' = 1
    /\ task' = "end"
    /\ UNCHANGED <<op, pc, arg, line, err, port, pconn, tres, perr, pport, pasvRet, tr,
                   chanVars, srvVars, fnVars>>

\* defer func() { doneChan <- 1 }(): the channel holds one value, so this
\* never blocks
TaskSignal ==
    /\ task = "signal"
    /\ doneChan' = 1
    /\ task' = "end"
    /\ UNCHANGED <<op, pc, arg, line, err, port, pconn, tres, perr, pport, pasvRet, tr,
                   chanVars, srvVars, fnVars>>

PasvTask == TaskSend \/ TaskRecv \/ TaskAssign \/ TaskParse \/ TaskSignal

-----------------------------------------------------------------------------
(* newConnection and the steps of a transfer *)

\* lines 473-475: the data connection is wrapped iff ftp.tlsconfig != nil.
\* A newConnection that never wraps, to compare against.
DialTlsNever == Plain

DialTls == IF tlsconfig # NilCfg THEN tlsconfig ELSE Plain

\* pconn, err := ftp.newConnection(port); if err != nil { return err };
\* defer pconn.Close().  net.Dial fails for a port outside 1..65535 and may
\* fail for any other.
DialStep(at, next) ==
    /\ pc = at
    /\ \E ok \in BOOLEAN :
        /\ ok => port \in 1..65535
        /\ pconn' = [st |-> IF ok THEN "open" ELSE "failed", port |-> port,
                     tls |-> IF ok THEN DialTls ELSE Plain]
        /\ tr' = Append(tr, Ev("op", IF ok THEN "dial" ELSE "dialfail", "", NoText))
        /\ pc' = IF ok THEN next ELSE "done"
        /\ err' = IF ok THEN Nil ELSE ErrIO
    /\ UNCHANGED <<op, arg, line, port, chanVars, srvVars, pasvVars, fnVars>>

\* The reply that follows the transfer command, read with receive() (discard)
\* or receiveNoDiscard(); only a failed read makes the operation return.
InitRecvStep(at, discard, next) ==
    /\ pc = at
    /\ Recv("op", "init", discard)
    /\ IF RecvFails THEN Return(ErrIO) /\ UNCHANGED line
       ELSE Goto(next) /\ line' = RecvLine
    /\ UNCHANGED <<op, arg, port, chanVars, pasvVars, fnVars>>

\* retrFn(pconn) / io.Copy(pconn, r): the callback or the copy may fail
DataStep(at, next) ==
    /\ pc = at
    /\ \E ok \in BOOLEAN :
        /\ tr' = Append(tr, Ev("op", IF ok THEN "data" ELSE "datafail", "", NoText))
        /\ IF ok THEN Goto(next) ELSE Return(ErrIO)
    /\ UNCHANGED <<op, arg, line, port, chanVars, srvVars, pasvVars, fnVars>>

\* pconn.Close() before the final reply
CloseStep(at, next) ==
    /\ pc = at
    /\ pconn' = [pconn EXCEPT !.st = "closed"]
    /\ tr' = Append(tr, Ev("op", "close", "", NoText))
    /\ pc' = next
    /\ UNCHANGED <<op, arg, line, err, port, chanVars, srvVars, pasvVars, fnVars>>

\* line, err = ftp.receive() and the comparison with StatusClosingDataConnection
FinalRecvStep(at) ==
    /\ pc = at
    /\ Recv("op", "final", TRUE)
    /\ IF RecvFails THEN Return(ErrIO) /\ UNCHANGED line
       ELSE /\ line' = RecvLine
            /\ IF ~HasPrefix(RecvLine, StatusClosingDataConnection)
               THEN Return(ErrNew(RecvLine)) ELSE Return(Nil)
    /\ UNCHANGED <<op, arg, port, chanVars, pasvVars, fnVars>>

\* ftp.Type(t): ftp.cmd(StatusOK, "TYPE %s", t)
Type(t, next) ==
    \/ SendStep("type_send", Cmd("TYPE", <<t>>), "type_recv")
    \/ CmdRecvStep("type_recv", StatusOK, next)

-----------------------------------------------------------------------------
(* The operations *)

Path == <<"f">>
User == <<"u">>
Pass == <<"p">>

\* Stor: lines 481-523
Stor ==
    /\ op = "Stor"
    /\ \/ Type("I", "pasv")
       \/ Pasv("xfer_send")
       \/ SendStep("xfer_send", Cmd("STOR", Path), "dial")
       \/ DialStep("dial", "init_recv")
       \/ InitRecvStep("init_recv", TRUE, "data")
       \/ DataStep("data", "close")
       \/ CloseStep("close", "final_recv")
       \/ FinalRecvStep("final_recv")

\* Retr: lines 681-722
Retr ==
    /\ op = "Retr"
    /\ \/ Type("I", "pasv")
       \/ Pasv("xfer_send")
       \/ SendStep("xfer_send", Cmd("RETR", Path), "dial")
       \/ DialStep("dial", "init_recv")
       \/ InitRecvStep("init_recv", FALSE, "data")
       \/ DataStep("data", "close")
       \/ CloseStep("close", "final_recv")
       \/ FinalRecvStep("final_recv")

\* A RetrFrom that sends REST after RETR, to compare against.
RetrFromRestLast ==
    /\ op = "RetrFrom"
    /\ \/ Type("I", "pasv")
       \/ Pasv("xfer_send")
       \/ SendStep("xfer_send", Cmd("RETR", Path), "rest_send")
       \/ SendStep("rest_send", Cmd("REST", Itoa(arg.off)), "dial")
       \/ DialStep("dial", "init_recv")
       \/ InitRecvStep("init_recv", FALSE, "data")
       \/ DataStep("data", "close")
       \/ CloseStep("close", "final_recv")
       \/ FinalRecvStep("final_recv")

\* RetrFrom: lines 525-570
RetrFrom ==
    /\ op = "RetrFrom"
    /\ \/ Type("I", "pasv")
       \/ Pasv("rest_send")
       \/ SendStep("rest_send", Cmd("REST", Itoa(arg.off)), "xfer_send")
       \/ SendStep("xfer_send", Cmd("RETR", Path), "dial")
       \/ DialStep("dial", "init_recv")
       \/ InitRecvStep("init_recv", FALSE, "data")
       \/ DataStep("data", "close")
       \/ CloseStep("close", "final_recv")
       \/ FinalRecvStep("final_recv")

\* StorFrom, lines 606-614: the final reply is read and nil is returned
\* whether or not it starts with StatusClosingDataConnection.
StorFromFinal ==
    /\ pc = "final_recv"
    /\ Recv("op", "final", TRUE)
    /\ IF RecvFails THEN Return(ErrIO) /\ UNCHANGED line
       ELSE /\ line' = RecvLine
            /\ IF ~HasPrefix(RecvLine, StatusClosingDataConnection)
               THEN Return(Nil) ELSE Return(Nil)
    /\ UNCHANGED <<op, arg, port, chanVars, pasvVars, fnVars>>

\* StorFrom: lines 572-615
StorFrom ==
    /\ op = "StorFrom"
    /\ \/ Type("I", "pasv")
       \/ Pasv("rest_send")
       \/ SendStep("rest_send", Cmd("REST", Itoa(arg.off)), "xfer_send")
       \/ SendStep("xfer_send", Cmd("STOR", Path), "dial")
       \/ DialStep("dial", "init_recv")
       \/ InitRecvStep("init_recv", TRUE, "data")
       \/ DataStep("data", "close")
       \/ CloseStep("close", "final_recv")
       \/ StorFromFinal

\* if err = ftp.send("MLSD %s", path); err != nil { }: a failed send is ignored
MlsdSend ==
    /\ pc = "mlsd_send"
    /\ Send("op", Cmd("MLSD", Path))
    /\ err' = IF SendOK THEN Nil ELSE ErrIO
    /\ pc' = "dial"
    /\ UNCHANGED <<op, arg, line, port, pconn, chanVars, pasvVars, fnVars>>

\* An MlsdRecv that tries LIST when MLSD was accepted, to compare against.
MlsdRecvInverted(next) ==
    /\ pc = "init_recv"
    /\ Recv("op", "init", FALSE)
    /\ IF RecvFails THEN Return(ErrIO) /\ UNCHANGED line
       ELSE /\ line' = RecvLine
            /\ IF HasPrefix(RecvLine, StatusFileOK) THEN Goto("list_send")
               ELSE Goto(next)
    /\ UNCHANGED <<op, arg, port, chanVars, pasvVars, fnVars>>

\* The reply to MLSD, read with receiveNoDiscard(): LIST is tried when it does
\* not start with StatusFileOK.
MlsdRecv(next) ==
    /\ pc = "init_recv"
    /\ Recv("op", "init", FALSE)
    /\ IF RecvFails THEN Return(ErrIO) /\ UNCHANGED line
       ELSE /\ line' = RecvLine
            /\ IF ~HasPrefix(RecvLine, StatusFileOK) THEN Goto("list_send")
               ELSE Goto(next)
    /\ UNCHANGED <<op, arg, port, chanVars, pasvVars, fnVars>>

\* List, lines 782-793: the scanner loop with the parser chosen at lines
\* 754-759, then return; the statements after that return (the read of the
\* final reply) are never executed.
ListScan(at, parser) ==
    /\ pc = at
    /\ \E ok \in BOOLEAN :
        /\ tr' = Append(tr, Ev("op", IF ok THEN "data" ELSE "datafail", parser, NoText))
        /\ IF ok THEN Return(Nil) ELSE Return(ErrIO)
    /\ UNCHANGED <<op, arg, line, port, chanVars, srvVars, pasvVars, fnVars>>

\* List: lines 729-804
List ==
    /\ op = "List"
    /\ \/ Type("A", "pasv")
       \/ Pasv("mlsd_send")
       \/ MlsdSend
       \/ DialStep("dial", "init_recv")
       \/ MlsdRecv("scan")
       \/ SendStep("list_send", Cmd("LIST", Path), "list_recv")
       \/ InitRecvStep("list_recv", FALSE, "scan_list")
       \/ ListScan("scan", "parseRFC3659ListLine")
       \/ ListScan("scan_list", "parseListLine")

\* List2: lines 1131-1192
List2 ==
    /\ op = "List2"
    /\ \/ Type("A", "pasv")
       \/ Pasv("mlsd_send")
       \/ MlsdSend
       \/ DialStep("dial", "init_recv")
       \/ MlsdRecv("data")
       \/ SendStep("list_send", Cmd("LIST", Path), "list_recv")
       \/ InitRecvStep("list_recv", FALSE, "data")
       \/ DataStep("data", "close")
       \/ CloseStep("close", "final_recv")
       \/ FinalRecvStep("final_recv")

\* Login, lines 843-851: ftp.cmd("331", "USER %s") after its send; an error
\* whose text starts with "230" is dropped (err = nil) and Login goes on.
LoginUserRecv ==
    /\ pc = "user_recv"
    /\ Recv("op", "cmd", TRUE)
    /\ IF RecvFails THEN Return(ErrIO)
       ELSE IF ~HasPrefix(RecvLine, StatusUser)
            THEN IF HasPrefix(ErrNew(RecvLine).text, StatusLoggedIn)
                 THEN Goto("pass_send")
                 ELSE Return(ErrNew(RecvLine))
       ELSE Goto("pass_send")
    /\ UNCHANGED <<op, arg, line, port, chanVars, pasvVars, fnVars>>

\* Login: lines 842-858
Login ==
    /\ op = "Login"
    /\ \/ SendStep("user_send", Cmd("USER", User), "user_recv")
       \/ LoginUserRecv
       \/ SendStep("pass_send", Cmd("PASS", Pass), "pass_recv")
       \/ CmdRecvStep("pass_recv", StatusLoggedIn, "done")

\* AuthTLS, lines 274-278: ftp.tlsconfig = config; the connection is replaced
\* by tls.Client(ftp.conn, config) and a new reader and writer are made on it.
AuthTLSWrap(next) ==
    /\ pc = "wrap"
    /\ tlsconfig' = arg.cfg
    /\ ctls' = arg.cfg
    /\ buf' = <<>>
    /\ tr' = Append(tr, Ev("op", "wrap", arg.cfg, NoText))
    /\ pc' = next
    /\ UNCHANGED <<op, arg, line, err, port, pconn, conn, srvq, net, srvXfer, pasvVars,
                   fnVars>>

\* A variant of AuthTLS that sends PBSZ 0 before it wraps the connection.
AuthTLSWrapLate ==
    /\ op = "AuthTLS"
    /\ \/ SendStep("auth_send", Cmd("AUTH", <<"T", "L", "S">>), "auth_recv")
       \/ CmdRecvStep("auth_recv", StatusAuth, "pbsz_send")
       \/ SendStep("pbsz_send", Cmd("PBSZ", <<"0">>), "pbsz_recv")
       \/ CmdRecvStep("pbsz_recv", StatusOK, "wrap")
       \/ AuthTLSWrap("prot_send")
       \/ SendStep("prot_send", Cmd("PROT", <<"P">>), "prot_recv")
       \/ CmdRecvStep("prot_recv", StatusOK, "done")

\* AuthTLS: lines 268-289
AuthTLS ==
    /\ op = "AuthTLS"
    /\ \/ SendStep("auth_send", Cmd("AUTH", <<"T", "L", "S">>), "auth_recv")
       \/ CmdRecvStep("auth_recv", StatusAuth, "wrap")
       \/ AuthTLSWrap("pbsz_send")
       \/ SendStep("pbsz_send", Cmd("PBSZ", <<"0">>), "pbsz_recv")
       \/ CmdRecvStep("pbsz_recv", StatusOK, "prot_send")
       \/ SendStep("prot_send", Cmd("PROT", <<"P">>), "prot_recv")
       \/ CmdRecvStep("prot_recv", StatusOK, "done")

-----------------------------------------------------------------------------
(* Navigation and metadata operations *)

\* One exchange: _, err = ftp.cmd(expects, verb ...); return
Exchange(verb, a, expects) ==
    \/ SendStep("cmd_send", Cmd(verb, a), "cmd_recv")
    \/ CmdRecvStep("cmd_recv", expects, "done")

\* Cwd: lines 244-247
Cwd == op = "Cwd" /\ Exchange("CWD", Path, StatusActionOK)

\* Mkd: lines 219-222
Mkd == op = "Mkd" /\ Exchange("MKD", Path, StatusPathCreated)

\* Rmd: lines 225-228
Rmd == op = "Rmd" /\ Exchange("RMD", Path, StatusActionOK)

\* Noop: lines 161-164
Noop == op = "Noop" /\ Exchange("NOOP", NoText, StatusOK)

\* Type called by the user of the session: lines 305-308
TypeOp == op = "Type" /\ Type("A", "done")

\* A Dele that accepts every reply, to compare against.
DeleAcceptsAll ==
    /\ op = "Dele"
    /\ \/ SendStep("cmd_send", Cmd("DELE", Path), "cmd_recv")
       \/ /\ pc = "cmd_recv"
          /\ Recv("op", "cmd", TRUE)
          /\ IF RecvFails THEN Return(ErrIO) ELSE Return(Nil)
          /\ UNCHANGED <<op, arg, line, port, chanVars, pasvVars, fnVars>>

\* Dele, lines 250-265: send, receive and the comparison written out
Dele ==
    /\ op = "Dele"
    /\ \/ SendStep("cmd_send", Cmd("DELE", Path), "cmd_recv")
       \/ /\ pc = "cmd_recv"
          /\ Recv("op", "cmd", TRUE)
          /\ IF RecvFails THEN Return(ErrIO)
             ELSE IF ~HasPrefix(RecvLine, StatusActionOK) THEN Return(ErrNew(RecvLine))
             ELSE Return(Nil)
          /\ UNCHANGED <<op, arg, line, port, chanVars, pasvVars, fnVars>>

\* Rename: lines 206-216
Rename ==
    /\ op = "Rename"
    /\ \/ SendStep("rnfr_send", Cmd("RNFR", Path), "rnfr_recv")
       \/ CmdRecvStep("rnfr_recv", StatusActionPending, "rnto_send")
       \/ SendStep("rnto_send", Cmd("RNTO", Path), "rnto_recv")
       \/ CmdRecvStep("rnto_recv", StatusActionOK, "done")

\* RePwdPath `\"(.*)\"` matches: a quote and, after it, another one
HasQuoted(l) == IndexOf(l, "\"") # 0 /\ IndexOf(l, "\"") < LastIndexOf(l, "\"")

\* strings.TrimSpace, and whether SplitN(.., " ", 2) has a second element
RECURSIVE TrimRight(_)
TrimRight(l) ==
    IF l # <<>> /\ l[Len(l)] = " " THEN TrimRight(SubSeq(l, 1, Len(l) - 1)) ELSE l

RECURSIVE TrimLeft(_)
TrimLeft(l) == IF l # <<>> /\ l[1] = " " THEN TrimLeft(Tail(l)) ELSE l

TrimSpace(l) == TrimLeft(TrimRight(l))

\* strconv.Atoi fails
AtoiFails(s) ==
    LET signed == s # <<>> /\ s[1] \in {"+", "-"}
        body   == IF signed THEN Tail(s) ELSE s
    IN  body = <<>> \/ \E i \in 1..Len(body) : ~IsDigit(body[i])

\* ftp.cmd after its send, followed by what the operation does with an
\* accepted reply: after is the error it returns for that reply, or Panic.
CmdThen(expects, after) ==
    /\ pc = "cmd_recv"
    /\ Recv("op", "cmd", TRUE)
    /\ IF RecvFails THEN Return(ErrIO)
       ELSE IF ~HasPrefix(RecvLine, expects) THEN Return(ErrNew(RecvLine))
       ELSE IF after = Panic THEN pc' = "panic" /\ UNCHANGED <<err, pconn>>
       ELSE Return(after)
    /\ UNCHANGED <<op, arg, line, port, chanVars, pasvVars, fnVars>>

\* Pwd, lines 237-239: path = res[0][1] is an index out of range when the
\* reply holds no quoted path
PwdPath(l) == IF HasQuoted(SubSeq(l, 5, Len(l))) THEN Nil ELSE Panic

\* Pwd: lines 231-241
Pwd ==
    /\ op = "Pwd"
    /\ \/ SendStep("cmd_send", Cmd("PWD", NoText), "cmd_recv")
       \/ CmdThen(StatusPathCreated, PwdPath(RecvLine))

\* Syst, line 630: SplitN(TrimSpace(line), " ", 2)[1] is an index out of range
\* when the trimmed reply holds no space
SystType(l) == IF IndexOf(TrimSpace(l), " ") # 0 THEN Nil ELSE Panic

\* Syst: lines 618-631
Syst ==
    /\ op = "Syst"
    /\ \/ SendStep("cmd_send", Cmd("SYST", NoText), "cmd_recv")
       \/ CmdThen(StatusSystemType, SystType(RecvLine))

\* Size, line 909: strconv.Atoi of the reply text after the code
SizeValue(l) == IF AtoiFails(SubSeq(l, 5, Len(l))) THEN ErrSyntax ELSE Nil

\* Size: lines 902-910
Size ==
    /\ op = "Size"
    /\ \/ SendStep("cmd_send", Cmd("SIZE", Path), "cmd_recv")
       \/ CmdThen(StatusSize, SizeValue(RecvLine))

\* Quit, lines 149-158: after an accepted reply the connection is closed and
\* ftp.conn is set to nil
Quit ==
    /\ op = "Quit"
    /\ \/ SendStep("cmd_send", Cmd("QUIT", NoText), "cmd_recv")
       \/ /\ pc = "cmd_recv"
          /\ Recv("op", "cmd", TRUE)
          /\ IF RecvFails THEN Return(ErrIO) /\ UNCHANGED conn
             ELSE IF ~HasPrefix(RecvLine, StatusConnectionClosing)
                  THEN Return(ErrNew(RecvLine)) /\ UNCHANGED conn
             ELSE Return(Nil) /\ conn' = "nil"
          /\ UNCHANGED <<op, arg, line, port, ctls, tlsconfig, pasvVars, fnVars>>

FirstPc(o) ==
    IF o = "Login" THEN "user_send"
    ELSE IF o = "AuthTLS" THEN "auth_send"
    ELSE IF o = "Rename" THEN "rnfr_send"
    ELSE IF o \in NavOps \ {"Type"} THEN "cmd_send"
    ELSE "type_send"

\* The caller, alone on the session, calls the next operation. The frame of a
\* Pasv whose task has ended is gone.
StartOp ==
    /\ pc \in {"idle", "done"}
    /\ Len(srvq) + Len(net) + Len(buf) <= MaxBacklog
    /\ \E o \in Ops : \E a \in Args(o) :
        /\ op' = o
        /\ arg' = a
        /\ pc' = FirstPc(o)
    /\ line' = NoText
    /\ err' = Nil
    /\ port' = 0
    /\ pconn' = NoConn
    /\ tr' = <<>>
    /\ pasvRet' = NoPasvRet
    /\ IF task = "end"
       THEN task' = "none" /\ tres' = NoRes /\ perr' = Nil /\ pport' = 0 /\ doneChan' = 0
       ELSE UNCHANGED <<task, tres, perr, pport, doneChan>>
    /\ UNCHANGED <<chanVars, srvVars, fnVars>>

-----------------------------------------------------------------------------
(* The server and the network *)

\* The server answers the oldest unanswered command. A transfer or listing
\* command answered with StatusFileOK starts a transfer.
ServerReply ==
    /\ srvq # <<>>
    /\ conn = "open"
    /\ LET c == Head(srvq)
           starts(r) == c.verb \in {"STOR", "RETR", "MLSD", "LIST"}
                        /\ HasPrefix(r, StatusFileOK)
       IN  \E r \in Replies(c) :
            /\ starts(r) => srvXfer = "none"
            /\ net' = Append(net, r)
            /\ srvXfer' = IF starts(r) THEN (IF c.verb = "STOR" THEN "up" ELSE "down")
                          ELSE srvXfer
    /\ srvq' = Tail(srvq)
    /\ UNCHANGED <<op, pc, arg, line, err, port, pconn, buf, tr, chanVars, pasvVars, fnVars>>

\* The server ends its transfer with a completion reply: a download when it
\* has sent the data, an upload once the client's data connection is not open.
ServerComplete ==
    /\ srvXfer # "none"
    /\ conn = "open"
    /\ srvXfer = "up" => pconn.st # "open"
    /\ \E r \in Completions : net' = Append(net, r)
    /\ srvXfer' = "none"
    /\ UNCHANGED <<op, pc, arg, line, err, port, pconn, srvq, buf, tr, chanVars, pasvVars,
                   fnVars>>

\* The control connection breaks while an operation runs.
ConnDrop ==
    /\ conn = "open"
    /\ pc \notin {"idle", "done"}
    /\ Closed
    /\ UNCHANGED <<op, pc, arg, line, err, port, pconn, ctls, tlsconfig, tr, pasvVars, fnVars>>

-----------------------------------------------------------------------------
(* The session: one caller, the background task of Pasv, the server *)

NoOut == [done |-> FALSE, port |-> 0, err |-> Nil]

\* Connect, lines 861-877: the session after the connection is made and the
\* greeting is read.
Connect ==
    /\ op = "none"
    /\ pc = "idle"
    /\ arg = NoArg
    /\ conn = "open"
    /\ ctls = Plain
    /\ tlsconfig = NilCfg
    /\ srvq = <<>>
    /\ net = <<>>
    /\ buf = <<>>
    /\ srvXfer = "none"
    /\ line = NoText
    /\ err = Nil
    /\ port = 0
    /\ pconn = NoConn
    /\ task = "none"
    /\ tres = NoRes
    /\ perr = Nil
    /\ pport = 0
    /\ doneChan = 0
    /\ pasvRet = NoPasvRet
    /\ tr = <<>>

Init ==
    /\ Connect
    /\ fnIn = NoText
    /\ fnOut = NoOut

Next ==
    \/ StartOp
    \/ Stor
    \/ StorFrom
    \/ Retr
    \/ RetrFrom
    \/ List
    \/ List2
    \/ Login
    \/ AuthTLS
    \/ Cwd
    \/ Mkd
    \/ Rmd
    \/ Dele
    \/ Rename
    \/ Pwd
    \/ Syst
    \/ Size
    \/ TypeOp
    \/ Noop
    \/ Quit
    \/ PasvTask
    \/ ServerReply
    \/ ServerComplete
    \/ ConnDrop

Spec == Init /\ [][Next]_vars

\* The caller inside Pasv after the go statement: the select, the timeout
\* branch and the return
PasvCaller ==
    /\ pc \in {"select", "pasv_close", "pasv_return"}
    /\ (Stor \/ StorFrom \/ Retr \/ RetrFrom \/ List \/ List2)

\* The steps of the background task that wait for nothing but the control
\* channel. TaskParse, which can be taken whenever the task is at "parse", has
\* its condition written out below.
TaskRuns == TaskSend \/ TaskRecv \/ TaskAssign \/ TaskSignal

\* The session with its scheduling: the background task runs whenever it can
\* (a read returns once a line has arrived or the connection is closed), and
\* the caller leaves the select, by the timer of time.After at the latest.
PasvFairSpec ==
    /\ Spec
    /\ WF_vars(TaskRuns)
    /\ []<>(task # "parse")
    /\ WF_vars(PasvCaller)

-----------------------------------------------------------------------------
(* The reply parser of Pasv on its own: every 227 reply built from up to    *)
(* MaxFields fields, with or without the parentheses.                       *)

MaxFields == 6

\* A field of the reply: a number as the server prints it, a word, nothing.
Word == 0 - 1
Empty == 0 - 2
FieldValues == {0, 7, 255, Word, Empty}

FieldText(f) == IF f = Word THEN <<"x">> ELSE IF f = Empty THEN <<>> ELSE Itoa(f)

RECURSIVE FieldTexts(_)
FieldTexts(fs) == IF fs = <<>> THEN <<>> ELSE <<FieldText(Head(fs))>> \o FieldTexts(Tail(fs))

\* The reply line a server sends for the fields
PasvLine(in) ==
    Reply(StatusPasv) \o
    (IF in.paren THEN <<"(">> \o Join(FieldTexts(in.fields)) \o <<")">>
     ELSE Join(FieldTexts(in.fields)))

PasvInputs ==
    {[paren |-> b, fields |-> fs] :
        b \in BOOLEAN, fs \in UNION {[1..n -> FieldValues] : n \in 0..MaxFields}}

InitPasv ==
    /\ Connect
    /\ fnIn \in PasvInputs
    /\ fnOut = NoOut

\* Lines 431-447 applied to the reply
PasvApply ==
    /\ ~fnOut.done
    /\ LET r == PasvParse(PasvLine(fnIn))
       IN  fnOut' = [done |-> TRUE, port |-> r.port, err |-> r.err]
    /\ UNCHANGED <<op, pc, arg, line, err, port, pconn, tr, chanVars, srvVars, pasvVars, fnIn>>

NextPasv == PasvApply

PasvSpec == InitPasv /\ [][NextPasv]_vars

-----------------------------------------------------------------------------
(* receive / receiveNoDiscard on a stream of lines: lines 334-398.  Here a   *)
(* line keeps its "\r\n", as ReadString('\n') returns it.                     *)

\* Most lines in the stream
MaxLines == 4

CRLF == <<"\r", "\n">>
Code211 == <<"2", "1", "1">>
Code212 == <<"2", "1", "2">>

\* The lines a server may put on the control channel: a continuation line, a
\* terminal line, an empty line, a terminal line of another code, a text line
\* of a multi-line reply.
StreamLines ==
    { Code211 \o <<"-", "a">> \o CRLF,
      Code211 \o <<" ", "b">> \o CRLF,
      CRLF,
      Code212 \o <<" ", "c">> \o CRLF,
      <<" ", "x">> \o CRLF }

RecvInputs ==
    {[lines |-> ls, discard |-> d] :
        ls \in UNION {[1..n -> StreamLines] : n \in 0..MaxLines}, d \in BOOLEAN}

\* (len(line) >= 4) && (line[3] == '-')
IsMultiline(l) == Len(l) >= 4 /\ l[4] = "-"

\* A closing code that keeps the continuation marker, to compare against.
ClosingCodeWithMarker(l) == SubSeq(l, 1, 4)

\* closingCode := line[:3] + " "
ClosingCode(l) == SubSeq(l, 1, 3) \o <<" ">>

NoRecv == [pc |-> "first", line |-> NoText, closing |-> NoText, rest |-> <<>>, err |-> Nil]

InitRecv ==
    /\ Connect
    /\ fnIn \in RecvInputs
    /\ fnOut = [NoRecv EXCEPT !.rest = fnIn.lines]

\* The return of receive: ftp.ReadAndDiscard() drops what the reader has
\* buffered; receiveNoDiscard leaves it.
ReceiveReturn(l, rest) ==
    [pc |-> "done", line |-> l, closing |-> fnOut.closing,
     rest |-> IF fnIn.discard THEN <<>> ELSE rest, err |-> Nil]

\* line, err := ftp.receiveLine() and the test for a multi-line reply
ReceiveFirst ==
    /\ fnOut.pc = "first"
    /\ fnOut' =
        IF fnOut.rest = <<>>
        THEN [fnOut EXCEPT !.pc = "done", !.err = ErrIO]
        ELSE LET l == Head(fnOut.rest)
             IN  IF IsMultiline(l)
                 THEN [pc |-> "loop", line |-> l, closing |-> ClosingCode(l),
                       rest |-> Tail(fnOut.rest), err |-> Nil]
                 ELSE ReceiveReturn(l, Tail(fnOut.rest))
    /\ UNCHANGED <<op, pc, arg, line, err, port, pconn, tr, chanVars, srvVars, pasvVars, fnIn>>

\* A loop that goes on after a line of fewer than four bytes, to compare against.
ReceiveNextPastShortLine ==
    /\ fnOut.pc = "loop"
    /\ fnOut' =
        IF fnOut.rest = <<>>
        THEN [fnOut EXCEPT !.pc = "done", !.err = ErrIO]
        ELSE LET str == Head(fnOut.rest)
                 l   == fnOut.line \o str
             IN  IF Len(str) >= 4 /\ SubSeq(str, 1, 4) = fnOut.closing
                 THEN ReceiveReturn(l, Tail(fnOut.rest))
                 ELSE [fnOut EXCEPT !.line = l, !.rest = Tail(fnOut.rest)]
    /\ UNCHANGED <<op, pc, arg, line, err, port, pconn, tr, chanVars, srvVars, pasvVars, fnIn>>

\* One turn of the loop: str, err := ftp.receiveLine(); line = line + str
ReceiveNext ==
    /\ fnOut.pc = "loop"
    /\ fnOut' =
        IF fnOut.rest = <<>>
        THEN [fnOut EXCEPT !.pc = "done", !.err = ErrIO]
        ELSE LET str == Head(fnOut.rest)
                 l   == fnOut.line \o str
             IN  IF Len(str) < 4 THEN ReceiveReturn(l, Tail(fnOut.rest))
                 ELSE IF SubSeq(str, 1, 4) = fnOut.closing
                      THEN ReceiveReturn(l, Tail(fnOut.rest))
                 ELSE [fnOut EXCEPT !.line = l, !.rest = Tail(fnOut.rest)]
    /\ UNCHANGED <<op, pc, arg, line, err, port, pconn, tr, chanVars, srvVars, pasvVars, fnIn>>

NextRecv == ReceiveFirst \/ ReceiveNext

RecvSpec == InitRecv /\ [][NextRecv]_vars

\* The caller runs receive to its return: receiveLine gives a line or, at the
\* end of the stream, fails.
RecvFairSpec == RecvSpec /\ WF_vars(NextRecv)

-----------------------------------------------------------------------------
(* The line scanner and the listing-line parsers: lines 912-1117, 1119-1129, *)
(* 1194-1271.  A listing line is the text scanner.Text() returns, without    *)
(* its line ending.                                                          *)

\* The characters of a string literal
Chars(s) == [i \in 1..Len(s) |-> SubSeq(s, i, i)]

AllDigits(s) == \A i \in 1..Len(s) : IsDigit(s[i])

\* The first index >= p where s holds c or, for ~eq, another character
\* (Len(s) + 1: none)
RECURSIVE Skip(_, _, _, _)
Skip(s, p, c, eq) ==
    IF p > Len(s) THEN Len(s) + 1
    ELSE IF (s[p] = c) = eq THEN p
    ELSE Skip(s, p + 1, c, eq)

\* scanner.Next, lines 1211-1234: skip spaces, read up to the next space and
\* step over it.  position is the index of the next unread byte, from 1.
ScanNext(s, position) ==
    LET start == Skip(s, position, " ", FALSE)
        stop  == Skip(s, start, " ", TRUE)
    IN  [tok |-> SubSeq(s, start, stop - 1),
         position |-> IF stop <= Len(s) THEN stop + 1 ELSE stop]

\* scanner.NextFields, lines 1194-1204
RECURSIVE NextFields(_, _, _)
NextFields(s, position, count) ==
    IF count = 0 THEN [fields |-> <<>>, position |-> position]
    ELSE LET n == ScanNext(s, position)
         IN  IF n.tok = <<>> THEN [fields |-> <<>>, position |-> n.position]
             ELSE LET r == NextFields(s, n.position, count - 1)
                  IN  [fields |-> <<n.tok>> \o r.fields, position |-> r.position]

\* scanner.Remaining, lines 1207-1209
Remaining(s, position) == SubSeq(s, position, Len(s))

\* strings.Index for a pattern of several characters; 0 when absent
IndexOfSeq(s, pat) ==
    LET at(i) == i + Len(pat) - 1 <= Len(s) /\ SubSeq(s, i, i + Len(pat) - 1) = pat
    IN  IF \E i \in 1..Len(s) : at(i)
        THEN CHOOSE i \in 1..Len(s) : at(i) /\ \A j \in 1..(i - 1) : ~at(j)
        ELSE 0

\* strings.Split for a one-character separator
RECURSIVE SplitBy(_, _)
SplitBy(s, c) ==
    LET i == IndexOf(s, c)
    IN  IF i = 0 THEN <<s>>
        ELSE <<SubSeq(s, 1, i - 1)>> \o SplitBy(SubSeq(s, i + 1, Len(s)), c)

RECURSIVE OctVal(_)
OctVal(s) ==
    IF s = <<>> THEN 0 ELSE 8 * OctVal(SubSeq(s, 1, Len(s) - 1)) + DigitVal(s[Len(s)])

\* strconv.ParseUint(str, 10, 64): decimal digits only
ParseUint10(s) ==
    IF s # <<>> /\ AllDigits(s) THEN [ok |-> TRUE, n |-> DecVal(s)]
    ELSE [ok |-> FALSE, n |-> 0]

\* strconv.ParseUint(str, 0, 64) for digit strings: a leading "0" makes the
\* number octal.  (The 0x, 0o, 0b and underscore forms are not written out.)
ParseUint0(s) ==
    IF s = <<>> \/ ~AllDigits(s) THEN [ok |-> FALSE, n |-> 0]
    ELSE IF Len(s) > 1 /\ s[1] = "0"
         THEN IF \A i \in 1..Len(s) : DigitVal(s[i]) <= 7
              THEN [ok |-> TRUE, n |-> OctVal(s)]
              ELSE [ok |-> FALSE, n |-> 0]
    ELSE [ok |-> TRUE, n |-> DecVal(s)]

\* Time values: calendar fields; the zero value stands for time.Time{}.
Date(y, mo, d, h, mi, s) == [y |-> y, mo |-> mo, d |-> d, h |-> h, mi |-> mi, s |-> s]
ZeroTime == Date(1, 1, 1, 0, 0, 0)

IsLeap(y) == y % 4 = 0 /\ (y % 100 # 0 \/ y % 400 = 0)

DaysIn(mo, y) ==
    IF mo = 2 THEN (IF IsLeap(y) THEN 29 ELSE 28)
    ELSE IF mo \in {4, 6, 9, 11} THEN 30 ELSE 31

\* Numbers that order the days and the seconds of a day
DayKey(t) == (t.y * 13 + t.mo) * 32 + t.d
ClockKey(t) == (t.h * 60 + t.mi) * 60 + t.s

\* Time.Before
Before(a, b) == DayKey(a) < DayKey(b) \/ (DayKey(a) = DayKey(b) /\ ClockKey(a) < ClockKey(b))

\* t.AddDate(years, months, 0): the fields are added and the date normalised,
\* a day past the end of the month running into the next month.
AddDate(t, years, months) ==
    LET m0 == t.mo + months
        y1 == t.y + years + (IF m0 > 12 THEN 1 ELSE 0)
        m1 == IF m0 > 12 THEN m0 - 12 ELSE m0
        over == t.d > DaysIn(m1, y1)
        d2 == IF over THEN t.d - DaysIn(m1, y1) ELSE t.d
        m2 == IF over THEN (IF m1 = 12 THEN 1 ELSE m1 + 1) ELSE m1
        y2 == IF over /\ m1 = 12 THEN y1 + 1 ELSE y1
    IN  [t EXCEPT !.y = y2, !.mo = m2, !.d = d2]

MonthNames == <<"Jan", "Feb", "Mar", "Apr", "May", "Jun", "Jul", "Aug", "Sep", "Oct", "Nov",
                "Dec">>

\* The month a token names (0: none); the names are compared as written.
MonthNum(tok) ==
    IF \E i \in 1..12 : Chars(MonthNames[i]) = tok
    THEN CHOOSE i \in 1..12 : Chars(MonthNames[i]) = tok
    ELSE 0

BadTime == [ok |-> FALSE, t |-> ZeroTime]

\* The fields of a date checked as time.Parse checks them
CheckedTime(y, mo, d, h, mi) ==
    IF mo \in 1..12 /\ d >= 1 /\ d <= DaysIn(mo, y) /\ h <= 23 /\ mi <= 59
    THEN [ok |-> TRUE, t |-> Date(y, mo, d, h, mi, 0)]
    ELSE BadTime

\* time.ParseInLocation("_2 Jan 2006 15:04", day + " " + month + " " + year +
\* " " + clock): a day of one or two digits, a month name, a year of four
\* digits, an hour of one or two digits, ":", a minute of two digits.
ParseLsTime(day, month, year, clock) ==
    LET c  == IndexOf(clock, ":")
        hh == SubSeq(clock, 1, c - 1)
        mm == SubSeq(clock, c + 1, Len(clock))
    IN  IF /\ Len(day) \in 1..2 /\ AllDigits(day)
           /\ MonthNum(month) # 0
           /\ Len(year) = 4 /\ AllDigits(year)
           /\ c # 0 /\ Len(hh) \in 1..2 /\ AllDigits(hh)
           /\ Len(mm) = 2 /\ AllDigits(mm)
        THEN CheckedTime(DecVal(year), MonthNum(month), DecVal(day), DecVal(hh), DecVal(mm))
        ELSE BadTime

\* time.ParseInLocation("20060102150405", value)
ParseModifyTime(v) ==
    IF Len(v) = 14 /\ AllDigits(v) /\ DecVal(SubSeq(v, 13, 14)) <= 59
    THEN LET r == CheckedTime(DecVal(SubSeq(v, 1, 4)), DecVal(SubSeq(v, 5, 6)),
                              DecVal(SubSeq(v, 7, 8)), DecVal(SubSeq(v, 9, 10)),
                              DecVal(SubSeq(v, 11, 12)))
         IN  IF r.ok THEN [ok |-> TRUE, t |-> [r.t EXCEPT !.s = DecVal(SubSeq(v, 13, 14))]]
             ELSE BadTime
    ELSE BadTime

\* dirTimeFormats[0], "01-02-06  03:04PM", on the first 17 bytes of a line
ParseDirTime12(v) ==
    LET num(a, b) == DecVal(SubSeq(v, a, b))
        dig(a, b) == AllDigits(SubSeq(v, a, b))
        yy == num(7, 8)
        pm == SubSeq(v, 16, 17) = <<"P", "M">>
        h  == IF pm THEN (IF num(11, 12) = 12 THEN 12 ELSE num(11, 12) + 12)
              ELSE (IF num(11, 12) = 12 THEN 0 ELSE num(11, 12))
    IN  IF /\ dig(1, 2) /\ v[3] = "-" /\ dig(4, 5) /\ v[6] = "-" /\ dig(7, 8)
           /\ SubSeq(v, 9, 10) = <<" ", " ">>
           /\ dig(11, 12) /\ v[13] = ":" /\ dig(14, 15)
           /\ SubSeq(v, 16, 17) \in {<<"A", "M">>, <<"P", "M">>}
           /\ num(11, 12) <= 12
        THEN CheckedTime(IF yy >= 69 THEN 1900 + yy ELSE 2000 + yy, num(1, 2), num(4, 5),
                         h, num(14, 15))
        ELSE BadTime

\* dirTimeFormats[1], "2006-01-02  15:04", on the first 17 bytes of a line
ParseDirTime24(v) ==
    LET num(a, b) == DecVal(SubSeq(v, a, b))
        dig(a, b) == AllDigits(SubSeq(v, a, b))
    IN  IF /\ dig(1, 4) /\ v[5] = "-" /\ dig(6, 7) /\ v[8] = "-" /\ dig(9, 10)
           /\ SubSeq(v, 11, 12) = <<" ", " ">>
           /\ dig(13, 14) /\ v[15] = ":" /\ dig(16, 17)
        THEN CheckedTime(num(1, 4), num(6, 7), num(9, 10), num(13, 14), num(16, 17))
        ELSE BadTime

\* len(dirTimeFormats[i])
DirTimeLen == 17

EntryTypeFile == 0
EntryTypeFolder == 1
EntryTypeLink == 2

ErrUnsupportedListLine == [k |-> "errUnsupportedListLine", text |-> <<>>]
ErrUnknownListEntryType == [k |-> "errUnknownListEntryType", text |-> <<>>]
ErrUnsupportedListDate == [k |-> "errUnsupportedListDate", text |-> <<>>]
ErrTime == [k |-> "time", text |-> <<>>]          \* a *time.ParseError

\* &Entry{}: the zero values of the fields
NewEntry == [nil |-> FALSE, Name |-> <<>>, Target |-> <<>>, Type |-> EntryTypeFile, Size |-> 0,
             Time |-> ZeroTime]
NilEntry == [NewEntry EXCEPT !.nil = TRUE]

\* What a parseFunc returns
Ret(e, er) == [e |-> e, err |-> er]
Unsupported == Ret(NilEntry, ErrUnsupportedListLine)

\* The moment the listing is parsed (time.Now() at line 783)
Now == Date(2023, 6, 15, 12, 0, 0)

\* setSize, lines 1236-1239: e.Size and the error of ParseUint
SetSize(str) == ParseUint0(str)

\* A setTime that moves back only a date later than now + 6 months, to
\* compare against.
SetTimeLaterOnly(fields, now) ==
    IF IndexOf(fields[3], ":") # 0
    THEN LET r == ParseLsTime(fields[2], fields[1], Itoa(now.y), fields[3])
             t == IF Before(AddDate(now, 0, 6), r.t) THEN AddDate(r.t, 0 - 1, 0) ELSE r.t
         IN  [t |-> t, err |-> IF r.ok THEN Nil ELSE ErrTime]
    ELSE IF Len(fields[3]) # 4 THEN [t |-> ZeroTime, err |-> ErrUnsupportedListDate]
    ELSE LET r == ParseLsTime(fields[2], fields[1], fields[3], Chars("00:00"))
         IN  [t |-> r.t, err |-> IF r.ok THEN Nil ELSE ErrTime]

\* setTime, lines 1241-1271, on the fields month, day, year-or-clock
SetTime(fields, now) ==
    IF IndexOf(fields[3], ":") # 0
    THEN LET r == ParseLsTime(fields[2], fields[1], Itoa(now.y), fields[3])
             t == IF ~Before(r.t, AddDate(now, 0, 6)) THEN AddDate(r.t, 0 - 1, 0) ELSE r.t
         IN  [t |-> t, err |-> IF r.ok THEN Nil ELSE ErrTime]
    ELSE IF Len(fields[3]) # 4 THEN [t |-> ZeroTime, err |-> ErrUnsupportedListDate]
    ELSE LET r == ParseLsTime(fields[2], fields[1], fields[3], Chars("00:00"))
         IN  [t |-> r.t, err |-> IF r.ok THEN Nil ELSE ErrTime]

UpperCase == Chars("ABCDEFGHIJKLMNOPQRSTUVWXYZ")
LowerCase == Chars("abcdefghijklmnopqrstuvwxyz")

\* strings.ToLower
ToLower(s) ==
    [i \in 1..Len(s) |->
        IF \E j \in 1..26 : UpperCase[j] = s[i]
        THEN LowerCase[CHOOSE j \in 1..26 : UpperCase[j] = s[i]]
        ELSE s[i]]

\* parseRFC3659ListLine, lines 924-951: the facts, one after the other
RECURSIVE RFC3659Facts(_, _)
RFC3659Facts(fs, e) ==
    IF fs = <<>> THEN Ret(e, Nil)
    ELSE LET field == Head(fs)
             i     == IndexOf(field, "=")
             key   == ToLower(SubSeq(field, 1, i - 1))
             value == SubSeq(field, i + 1, Len(field))
         IN  IF i <= 1 THEN Unsupported
             ELSE IF key = Chars("modify")
                  THEN LET r == ParseModifyTime(value)
                       IN  IF ~r.ok THEN Ret(NilEntry, ErrTime)
                           ELSE RFC3659Facts(Tail(fs), [e EXCEPT !.Time = r.t])
             ELSE IF key = Chars("type")
                  THEN RFC3659Facts(Tail(fs),
                        IF value \in {Chars("dir"), Chars("cdir"), Chars("pdir")}
                        THEN [e EXCEPT !.Type = EntryTypeFolder]
                        ELSE IF value = Chars("file") THEN [e EXCEPT !.Type = EntryTypeFile]
                        ELSE e)
             ELSE IF key = Chars("size")
                  THEN RFC3659Facts(Tail(fs), [e EXCEPT !.Size = SetSize(value).n])
             ELSE RFC3659Facts(Tail(fs), e)

\* parseRFC3659ListLine: lines 912-952
parseRFC3659ListLine(l) ==
    LET iSemicolon  == IndexOf(l, ";")
        iWhitespace == IndexOf(l, " ")
    IN  IF iSemicolon = 0 \/ iSemicolon > iWhitespace THEN Unsupported
        ELSE RFC3659Facts(SplitBy(SubSeq(l, 1, iWhitespace - 2), ";"),
                          [NewEntry EXCEPT !.Name = SubSeq(l, iWhitespace + 1, Len(l))])

\* The end of parseLsListLine, lines 1030-1034: the date, then the entry
LsWithTime(e, fields) ==
    LET r == SetTime(fields, Now)
    IN  IF r.err # Nil THEN Ret(NilEntry, r.err) ELSE Ret([e EXCEPT !.Time = r.t], Nil)

\* parseLsListLine: lines 956-1035
parseLsListLine(l) ==
    LET i  == IndexOf(l, " ")
        f6 == NextFields(l, 1, 6)
    IN  IF ~(i = 11 \/ (i = 12 /\ l[11] = "+")) THEN Unsupported
        ELSE IF Len(f6.fields) < 6 THEN Unsupported
        ELSE IF f6.fields[2] = Chars("folder") /\ f6.fields[3] = Chars("0")
             THEN LsWithTime([NewEntry EXCEPT !.Type = EntryTypeFolder,
                                              !.Name = Remaining(l, f6.position)],
                             SubSeq(f6.fields, 4, 6))
        ELSE IF f6.fields[2] = Chars("0")
             THEN LET n  == ScanNext(l, f6.position)
                      f7 == Append(f6.fields, n.tok)
                      sz == SetSize(f7[3])
                  IN  IF ~sz.ok THEN Unsupported
                      ELSE LsWithTime([NewEntry EXCEPT !.Type = EntryTypeFile,
                                                       !.Name = Remaining(l, n.position),
                                                       !.Size = sz.n],
                                      SubSeq(f7, 5, 7))
        ELSE LET f2   == NextFields(l, f6.position, 2)
                 f8   == f6.fields \o f2.fields
                 name == Remaining(l, f2.position)
                 sz   == SetSize(f8[5])
                 arrow == IndexOfSeq(name, Chars(" -> "))
             IN  IF Len(f8) < 8 THEN Unsupported
                 ELSE IF f8[1][1] = "-"
                      THEN IF ~sz.ok THEN Ret(NilEntry, ErrSyntax)
                           ELSE LsWithTime([NewEntry EXCEPT !.Type = EntryTypeFile,
                                                            !.Name = name, !.Size = sz.n],
                                           SubSeq(f8, 6, 8))
                 ELSE IF f8[1][1] = "d"
                      THEN LsWithTime([NewEntry EXCEPT !.Type = EntryTypeFolder,
                                                       !.Name = name],
                                      SubSeq(f8, 6, 8))
                 ELSE IF f8[1][1] = "l"
                      THEN LsWithTime(
                            IF arrow > 1
                            THEN [NewEntry EXCEPT !.Type = EntryTypeLink,
                                      !.Target = SubSeq(name, arrow + 4, Len(name)),
                                      !.Name = SubSeq(name, 1, arrow - 1)]
                            ELSE [NewEntry EXCEPT !.Type = EntryTypeLink, !.Name = name],
                            SubSeq(f8, 6, 8))
                 ELSE Ret(NilEntry, ErrUnknownListEntryType)

\* parseDirListLine, lines 1058-1076: what follows the date and time
DirAfterTime(t, rest) ==
    LET l     == TrimLeft(rest)
        space == IndexOf(l, " ")
        sz    == ParseUint10(SubSeq(l, 1, space - 1))
    IN  IF HasPrefix(l, Chars("<DIR>"))
        THEN Ret([NewEntry EXCEPT !.Time = t, !.Type = EntryTypeFolder,
                                  !.Name = TrimLeft(SubSeq(l, 6, Len(l)))], Nil)
        ELSE IF space = 0 THEN Unsupported
        ELSE IF ~sz.ok THEN Unsupported
        ELSE Ret([NewEntry EXCEPT !.Time = t, !.Type = EntryTypeFile, !.Size = sz.n,
                                  !.Name = TrimLeft(SubSeq(l, space, Len(l)))], Nil)

\* parseDirListLine, lines 1039-1077.  A line no longer than a time format is
\* not given to time.ParseInLocation, err stays nil and the line goes on
\* without a time.
parseDirListLine(l) ==
    IF Len(l) > DirTimeLen
    THEN LET v   == SubSeq(l, 1, DirTimeLen)
             r12 == ParseDirTime12(v)
             r24 == ParseDirTime24(v)
             rest == SubSeq(l, DirTimeLen + 1, Len(l))
         IN  IF r12.ok THEN DirAfterTime(r12.t, rest)
             ELSE IF r24.ok THEN DirAfterTime(r24.t, rest)
             ELSE Unsupported
    ELSE DirAfterTime(ZeroTime, l)

\* parseHostedFTPLine: lines 1083-1098
parseHostedFTPLine(l) ==
    LET f2 == NextFields(l, 1, 2)
    IN  IF IndexOf(l, " ") # 11 THEN Unsupported
        ELSE IF Len(f2.fields) < 2 \/ f2.fields[2] # Chars("0") THEN Unsupported
        ELSE parseLsListLine(f2.fields[1] \o Chars(" 1 ") \o Remaining(l, f2.position))

\* listLineParsers, lines 1112-1117
listLineParsers ==
    <<"parseRFC3659ListLine", "parseLsListLine", "parseDirListLine", "parseHostedFTPLine">>

\* f(line, now, loc) for a parser of listLineParsers
CallParser(f, l) ==
    CASE f = "parseRFC3659ListLine" -> parseRFC3659ListLine(l)
      [] f = "parseLsListLine" -> parseLsListLine(l)
      [] f = "parseDirListLine" -> parseDirListLine(l)
      [] f = "parseHostedFTPLine" -> parseHostedFTPLine(l)

\* if err != errUnsupportedListLine { return e, err }: r is what the parser
\* returned, rest what the parsers after it make of the line
FirstDefinitive(r, rest) == IF r.err # ErrUnsupportedListLine THEN r ELSE rest

\* parseListLine, lines 1102-1110, from the i-th parser on
RECURSIVE ListLineFrom(_, _)
ListLineFrom(i, l) ==
    IF i > Len(listLineParsers) THEN Unsupported
    ELSE FirstDefinitive(CallParser(listLineParsers[i], l), ListLineFrom(i + 1, l))

parseListLine(l) == ListLineFrom(1, l)

-----------------------------------------------------------------------------
(* parseListLine on its own, one parser a step, on lines of every dialect   *)

\* First fields of Unix-style lines: permissions (10 bytes, with "+", too
\* short, of unknown type) and link counts
LsModes == {"-rw-r--r--", "drwxr-xr-x", "lrwxrwxrwx", "-rw-r--r--+", "-rw-r--r-", "?rw-r--r--"}
LsLinks == {"1", "0", "folder"}

\* What follows them: owner, group, size, date, name
LsTails ==
    {"user group 1024 Jan 1 00:00 file.txt",
     "user group 1024 Jan 1 2023 file.txt",
     "user group 1024 Dec 31 23:59 file.txt",
     "user group size Jan 1 00:00 file.txt",
     "user group 1024 Jan 1 99 file.txt",
     "user group 1024 Jan 32 00:00 file.txt",
     "0 Jan 1 00:00 sub dir",
     "user group 1024",
     "user group 0 Jan 1 00:00 link -> target"}

LsLines == {Chars(m) \o <<" ">> \o Chars(k) \o <<" ">> \o Chars(t) :
                m \in LsModes, k \in LsLinks, t \in LsTails}

RFC3659Lines ==
    {Chars("modify=20230615120000;type=file;size=42; report.txt"),
     Chars("Type=dir;Modify=20230615120000; sub"),
     Chars("type=cdir; ."),
     Chars("type=file;size=big; a"),
     Chars("modify=20231315120000;type=file; a"),
     Chars("type=file;=1; a"),
     Chars("type=file a; b"),
     Chars("size=42;type=file;")}

DirLines ==
    {Chars("01-02-06  03:04PM   <DIR>          subdir"),
     Chars("01-02-06  03:04PM                 12 file.txt"),
     Chars("2006-01-02  15:04  12 file.txt"),
     Chars("13-02-06  03:04PM  12 file.txt"),
     Chars("01-02-06  03:04PM  size file.txt"),
     Chars("01-02-06  03:04PM  12"),
     Chars("<DIR> sub"),
     Chars("12 file.txt"),
     Chars("total 12"),
     Chars("")}

ListingLines == LsLines \cup RFC3659Lines \cup DirLines

NoParse == [i |-> 1, calls |-> <<>>, done |-> FALSE, r |-> Unsupported]

InitParse ==
    /\ Connect
    /\ fnIn \in ListingLines
    /\ fnOut = NoParse

\* The parser f has returned r: the loop ends unless r is errUnsupportedListLine
Tried(f, r) ==
    [i |-> fnOut.i + 1, calls |-> Append(fnOut.calls, f),
     done |-> r.err # ErrUnsupportedListLine, r |-> r]

\* A loop that goes on to the next parser after every error, to compare against.
ParseTryUntilEntry ==
    /\ ~fnOut.done
    /\ fnOut.i <= Len(listLineParsers)
    /\ LET f == listLineParsers[fnOut.i]
           r == CallParser(f, fnIn)
       IN  fnOut' = [i |-> fnOut.i + 1, calls |-> Append(fnOut.calls, f),
                     done |-> r.err = Nil, r |-> r]
    /\ UNCHANGED <<op, pc, arg, line, err, port, pconn, tr, chanVars, srvVars, pasvVars, fnIn>>

\* One turn of the loop of parseListLine: e, err := f(line, now, loc);
\* if err != errUnsupportedListLine { return e, err }
ParseTry ==
    /\ ~fnOut.done
    /\ fnOut.i <= Len(listLineParsers)
    /\ fnOut' = Tried(listLineParsers[fnOut.i],
                      CallParser(listLineParsers[fnOut.i], fnIn))
    /\ UNCHANGED <<op, pc, arg, line, err, port, pconn, tr, chanVars, srvVars, pasvVars, fnIn>>

\* return nil, errUnsupportedListLine after the loop
ParseNone ==
    /\ ~fnOut.done
    /\ fnOut.i > Len(listLineParsers)
    /\ fnOut' = [fnOut EXCEPT !.done = TRUE, !.r = Unsupported]
    /\ UNCHANGED <<op, pc, arg, line, err, port, pconn, tr, chanVars, srvVars, pasvVars, fnIn>>

NextParse == ParseTry \/ ParseNone

ParseSpec == InitParse /\ [][NextParse]_vars

-----------------------------------------------------------------------------
(* The scanner loop of List, lines 782-793, on the lines of a listing       *)

\* Most lines in a listing
MaxListing == 3

ScanLines ==
    {Chars("-rw-r--r-- 1 user group 1024 Jan 1 00:00 file.txt"),
     Chars("type=file;size=42; report.txt"),
     Chars("total 12"),
     Chars("-rw-r--r-- 1 user group 1024 Jan 1 99 old.txt"),
     Chars("01-02-06  03:04PM   <DIR>          subdir")}

\* The parser List chose, the lines the scanner delivers, and whether the
\* scanner then stops on a read error of the data connection
ScanInputs ==
    {[parser |-> f, lines |-> ls, readErr |-> b] :
        f \in {"parseRFC3659ListLine", "parseListLine"},
        ls \in UNION {[1..n -> ScanLines] : n \in 0..MaxListing},
        b \in BOOLEAN}

\* parser(scanner.Text(), now, time.UTC)
Parser(f, l) == IF f = "parseListLine" THEN parseListLine(l) ELSE parseRFC3659ListLine(l)

NoScan == [i |-> 1, entries |-> <<>>, done |-> FALSE, ret |-> <<>>, err |-> Nil]

InitScan ==
    /\ Connect
    /\ fnIn \in ScanInputs
    /\ fnOut = NoScan

\* entry, err := parser(..); if err == nil { entries = append(entries, entry) }
Appended(r) ==
    IF r.err = Nil
    THEN [fnOut EXCEPT !.i = @ + 1, !.entries = Append(@, r.e)]
    ELSE [fnOut EXCEPT !.i = @ + 1]

\* A loop that a rejected line ends, to compare against.
ScanLineStopsAtError ==
    /\ ~fnOut.done
    /\ fnOut.i <= Len(fnIn.lines)
    /\ LET r == Parser(fnIn.parser, fnIn.lines[fnOut.i])
       IN  fnOut' = IF r.err = Nil
                    THEN [fnOut EXCEPT !.i = @ + 1, !.entries = Append(@, r.e)]
                    ELSE [fnOut EXCEPT !.done = TRUE, !.ret = fnOut.entries]
    /\ UNCHANGED <<op, pc, arg, line, err, port, pconn, tr, chanVars, srvVars, pasvVars, fnIn>>

\* for scanner.Scan() { entry, err := parser(..); if err == nil { append } }
ScanLine ==
    /\ ~fnOut.done
    /\ fnOut.i <= Len(fnIn.lines)
    /\ fnOut' = Appended(Parser(fnIn.parser, fnIn.lines[fnOut.i]))
    /\ UNCHANGED <<op, pc, arg, line, err, port, pconn, tr, chanVars, srvVars, pasvVars, fnIn>>

\* if err := scanner.Err(); err != nil { return nil, err }; return
ScanEnd ==
    /\ ~fnOut.done
    /\ fnOut.i > Len(fnIn.lines)
    /\ fnOut' = IF fnIn.readErr
                THEN [fnOut EXCEPT !.done = TRUE, !.ret = <<>>, !.err = ErrIO]
                ELSE [fnOut EXCEPT !.done = TRUE, !.ret = fnOut.entries]
    /\ UNCHANGED <<op, pc, arg, line, err, port, pconn, tr, chanVars, srvVars, pasvVars, fnIn>>

NextScan == ScanLine \/ ScanEnd

ScanSpec == InitScan /\ [][NextScan]_vars

-----------------------------------------------------------------------------
(* Walk, lines 108-146, over a remote tree.  List2 is taken by its result:  *)
(* the raw lines of the directory, each with its "\r\n", in the dialect of   *)
(* the listing command the server accepted, or a failure.                    *)

\* Most entries in the listing of one directory
MaxEntries == 3

DirEntry(n) == [name |-> Chars(n), kind |-> "dir"]
FileEntry(n) == [name |-> Chars(n), kind |-> "file"]

\* The entries /a/ and /a/b/ may hold
RootEntries == {DirEntry("b"), FileEntry("c.txt"), DirEntry("."), DirEntry("..")}
SubEntries == {FileEntry("d.txt"), DirEntry("."), DirEntry("..")}

\* The listings of a directory: its entries in any order
Listings(es) ==
    {ls \in UNION {[1..n -> es] : n \in 0..MaxEntries} :
        \A i \in 1..Len(ls) : \A j \in 1..Len(ls) : i # j => ls[i] # ls[j]}

RootPath == Chars("/a/")
SubPath == Chars("/a/b/")

\* The listings of /a/b/ under a listing of /a/: /a/b/ exists when /a/ lists b
SubListings(r) ==
    IF \E i \in 1..Len(r) : r[i] = DirEntry("b") THEN Listings(SubEntries) ELSE {<<>>}

\* dialect: the listing command that produced the raw lines
WalkInputs ==
    UNION {{[root |-> r, sub |-> s, dialect |-> d] :
                s \in SubListings(r), d \in {"MLSD", "LIST"}} :
           r \in Listings(RootEntries)}

\* The line of an entry in the answer to MLSD and in the answer to LIST
MlsdLine(e) ==
    Chars("type=") \o Chars(e.kind) \o
    (IF e.kind = "file" THEN Chars(";size=1; ") ELSE Chars("; ")) \o e.name \o CRLF

ListLine(e) ==
    (IF e.kind = "file" THEN Chars("-rw-r--r-- 1 user group 1 Jan 1 00:00 ")
     ELSE Chars("drwxr-xr-x 2 user group 0 Jan 1 00:00 ")) \o e.name \o CRLF

RawLines(es, d) == [i \in 1..Len(es) |-> IF d = "MLSD" THEN MlsdLine(es[i]) ELSE ListLine(es[i])]

\* The entries of the directory at path; a directory other than /a/ and /a/b/
\* is empty, and /a/b/ exists when /a/ lists b.
RemoteDir(in, path) ==
    IF path = RootPath THEN in.root
    ELSE IF path = SubPath THEN in.sub
    ELSE <<>>

\* parseLine, lines 91-105: the facts of a line, one after the other
RECURSIVE ParseLineFacts(_, _)
ParseLineFacts(vs, r) ==
    IF vs = <<>> \/ r.panic THEN r
    ELSE LET v  == Head(vs)
             v2 == SplitBy(v, "=")
         IN  ParseLineFacts(Tail(vs),
                IF v2[1] = Chars("perm")
                THEN (IF Len(v2) < 2 THEN [r EXCEPT !.panic = TRUE]
                      ELSE [r EXCEPT !.perm = v2[2]])
                ELSE IF v2[1] = Chars("type")
                THEN (IF Len(v2) < 2 THEN [r EXCEPT !.panic = TRUE]
                      ELSE [r EXCEPT !.t = v2[2]])
                ELSE IF Len(v) < 3 THEN [r EXCEPT !.panic = TRUE]
                ELSE [r EXCEPT !.filename = SubSeq(v, 2, Len(v) - 2)])

parseLine(l) ==
    ParseLineFacts(SplitBy(l, ";"),
                   [perm |-> <<>>, t |-> <<>>, filename |-> <<>>, panic |-> FALSE])

ErrVisit == [k |-> "walkFn", text |-> <<>>]       \* the error walkFn returns

Frame(path) == [path |-> path, lines |-> <<>>, i |-> 1, st |-> "list"]

NoWalk == [stack |-> <<Frame(RootPath)>>, visits |-> <<>>, lists |-> <<>>, err |-> Nil,
           fail |-> Nil, done |-> FALSE]

InitWalk ==
    /\ Connect
    /\ fnIn \in WalkInputs
    /\ fnOut = NoWalk

Top == fnOut.stack[Len(fnOut.stack)]
SetTop(f) == [fnOut.stack EXCEPT ![Len(fnOut.stack)] = f]

\* if lines, err = ftp.List2(path); err != nil { return }
WalkList2 ==
    /\ ~fnOut.done
    /\ Top.st = "list"
    /\ \E ok \in BOOLEAN :
        fnOut' =
            IF ok
            THEN [fnOut EXCEPT !.lists = Append(@, Top.path),
                    !.stack = SetTop([Top EXCEPT !.st = "loop",
                                        !.lines = RawLines(RemoteDir(fnIn, Top.path),
                                                           fnIn.dialect)])]
            ELSE [fnOut EXCEPT !.lists = Append(@, Top.path), !.err = ErrIO, !.fail = ErrIO,
                    !.stack = SetTop([Top EXCEPT !.st = "ret"])]
    /\ UNCHANGED <<op, pc, arg, line, err, port, pconn, tr, chanVars, srvVars, pasvVars, fnIn>>

Dot == Chars(".")
DotDot == Chars("..")
Slash == Chars("/")

\* The step of the loop on a directory line
WalkDir(path, subpath) ==
    IF subpath = Dot \/ subpath = DotDot
    THEN fnOut' = [fnOut EXCEPT !.stack = SetTop([Top EXCEPT !.i = @ + 1])]
    ELSE fnOut' = [fnOut EXCEPT !.stack = Append(@, Frame(path \o subpath \o Slash))]

\* The step of the loop on a file line: walkFn(path+subpath, ...) succeeds or fails
WalkFile(path, subpath) ==
    \E ok \in BOOLEAN :
        fnOut' =
            IF ok
            THEN [fnOut EXCEPT !.visits = Append(@, path \o subpath),
                    !.stack = SetTop([Top EXCEPT !.i = @ + 1])]
            ELSE [fnOut EXCEPT !.visits = Append(@, path \o subpath),
                    !.err = ErrVisit, !.fail = ErrVisit,
                    !.stack = SetTop([Top EXCEPT !.st = "ret"])]

\* The loop of Walk without the descent into a sub-directory, to compare against
WalkEntryFlat ==
    /\ ~fnOut.done
    /\ Top.st = "loop"
    /\ Top.i <= Len(Top.lines)
    /\ LET r == parseLine(Top.lines[Top.i])
       IN  IF r.panic
           THEN fnOut' = [fnOut EXCEPT !.done = TRUE, !.err = Panic, !.fail = Panic]
           ELSE IF r.t = Chars("file") THEN WalkFile(Top.path, r.filename)
           ELSE fnOut' = [fnOut EXCEPT !.stack = SetTop([Top EXCEPT !.i = @ + 1])]
    /\ UNCHANGED <<op, pc, arg, line, err, port, pconn, tr, chanVars, srvVars, pasvVars, fnIn>>

\* for _, line := range lines { _, t, subpath := parseLine(line); switch t ... }
WalkEntry ==
    /\ ~fnOut.done
    /\ Top.st = "loop"
    /\ Top.i <= Len(Top.lines)
    /\ LET r == parseLine(Top.lines[Top.i])
       IN  IF r.panic
           THEN fnOut' = [fnOut EXCEPT !.done = TRUE, !.err = Panic, !.fail = Panic]
           ELSE IF r.t = Chars("dir") THEN WalkDir(Top.path, r.filename)
           ELSE IF r.t = Chars("file") THEN WalkFile(Top.path, r.filename)
           ELSE fnOut' = [fnOut EXCEPT !.stack = SetTop([Top EXCEPT !.i = @ + 1])]
    /\ UNCHANGED <<op, pc, arg, line, err, port, pconn, tr, chanVars, srvVars, pasvVars, fnIn>>

\* What a call of Walk returns: err as last assigned
WalkResult == IF Top.st = "ret" THEN fnOut.err ELSE Nil

\* The caller of a returned Walk: the program, or the loop of the directory above
Unwind(e, keepsOn) ==
    IF Len(fnOut.stack) = 1
    THEN fnOut' = [fnOut EXCEPT !.stack = <<>>, !.err = e, !.done = TRUE]
    ELSE LET up  == fnOut.stack[Len(fnOut.stack) - 1]
             up2 == IF keepsOn THEN [up EXCEPT !.i = @ + 1] ELSE [up EXCEPT !.st = "ret"]
         IN  fnOut' = [fnOut EXCEPT !.err = e,
                         !.stack = Append(SubSeq(@, 1, Len(@) - 2), up2)]

\* Walk going on with the next line whatever the walk below returned, to compare against
WalkReturnIgnoringError ==
    /\ ~fnOut.done
    /\ Top.st = "ret" \/ (Top.st = "loop" /\ Top.i > Len(Top.lines))
    /\ Unwind(WalkResult, TRUE)
    /\ UNCHANGED <<op, pc, arg, line, err, port, pconn, tr, chanVars, srvVars, pasvVars, fnIn>>

\* return; and in the caller: if err = ftp.Walk(...); err != nil { return }
WalkReturn ==
    /\ ~fnOut.done
    /\ Top.st = "ret" \/ (Top.st = "loop" /\ Top.i > Len(Top.lines))
    /\ Unwind(WalkResult, WalkResult = Nil)
    /\ UNCHANGED <<op, pc, arg, line, err, port, pconn, tr, chanVars, srvVars, pasvVars, fnIn>>

NextWalk == WalkList2 \/ WalkEntry \/ WalkReturn

WalkSpec == InitWalk /\ [][NextWalk]_vars

-----------------------------------------------------------------------------
(* setTime on its own, for several values of now *)

\* The moments at which a listing is parsed
Nows ==
    {Date(2023, 1, 1, 0, 0, 0), Date(2023, 3, 31, 12, 0, 0), Date(2023, 6, 15, 12, 0, 0),
     Date(2023, 6, 30, 23, 59, 0), Date(2023, 8, 31, 12, 0, 0), Date(2023, 12, 31, 23, 59, 0),
     Date(2024, 2, 29, 12, 0, 0), Date(2024, 6, 15, 12, 0, 0)}

\* The date fields of a Unix-style line: month, day, clock or year
TimeFields ==
    {<<Chars(m), Chars(d), Chars(c)>> :
        m \in {"Jan", "Feb", "Jun", "Jul", "Sep", "Oct", "Dec", "jan"},
        d \in {"1", "15", "29", "30", "31"},
        c \in {"00:00", "11:59", "12:00", "23:59", "2023", "99"}}

TimeInputs == {[fields |-> f, now |-> n] : f \in TimeFields, n \in Nows}

NoTime == [done |-> FALSE, t |-> ZeroTime, err |-> Nil]

InitTime ==
    /\ Connect
    /\ fnIn \in TimeInputs
    /\ fnOut = NoTime

\* err = e.setTime(fields, now, loc)
SetTimeReturn(r) == [done |-> TRUE, t |-> r.t, err |-> r.err]

SetTimeCall ==
    /\ ~fnOut.done
    /\ fnOut' = SetTimeReturn(SetTime(fnIn.fields, fnIn.now))
    /\ UNCHANGED <<op, pc, arg, line, err, port, pconn, tr, chanVars, srvVars, pasvVars, fnIn>>

TimeSpec == InitTime /\ [][SetTimeCall]_vars

-----------------------------------------------------------------------------
(* Properties *)

IsOpEv(e) == e.by = "op"

\* The events of the caller's operation, without those of the background task
OpTr == SelectSeq(tr, IsOpEv)

Returned == pc = "done"

Dialed == \E i \in 1..Len(OpTr) : OpTr[i].e = "dial"

FinalReads == {i \in 1..Len(OpTr) : OpTr[i].e \in {"recv", "recvfail"} /\ OpTr[i].v = "final"}

\* C1: an operation that opened a data channel has read (or tried to read) the
\* final completion reply from the control channel when it returns; stated for
\* the returns that leave the control connection open.
C1_FinalReplyReadBeforeReturn ==
    (Returned /\ op \in DataOps /\ Dialed /\ conn = "open") => FinalReads # {}

\* C2: a transfer operation that read a final reply returns nil only if that
\* reply starts with the closing-data-connection status, and returns the reply
\* as the error for any other final reply.
C2_SuccessOnlyOnClosingStatus ==
    (Returned /\ op \in TransferOps) =>
        \A i \in FinalReads :
            OpTr[i].e = "recv" =>
                IF HasPrefix(OpTr[i].l, StatusClosingDataConnection)
                THEN err = Nil
                ELSE err = ErrNew(OpTr[i].l)

Sends == {i \in 1..Len(tr) : tr[i].e = "send"}

\* C3: between two commands written to the control channel a reply is read: no
\* command is written while the reply to the previous one is unread.
C3_OneCommandInFlight ==
    \A i \in Sends : \A j \in Sends :
        i < j => \E k \in (i + 1)..(j - 1) : tr[k].e = "recv"

\* C4: a Pasv that took the timeout branch returns a failure and has closed the
\* control connection.
C4_TimeoutReturnsFailure ==
    (pasvRet.n = 1 /\ pasvRet.timeout) => (pasvRet.err # Nil /\ conn = "closed")

\* A 227 reply with a parenthesized tuple of six numbers
IsNumber(f) == f # <<>> /\ \A i \in 1..Len(f) : IsDigit(f[i])

SixNumbers(l) ==
    /\ PasvMatch(l) # <<>>
    /\ LET s == Split(PasvMatch(l)[1])
       IN  Len(s) = 6 /\ \A i \in 1..6 : IsNumber(s[i])

\* C5: a data channel is open only when the PASV exchange of the operation
\* ended with a 227 reply carrying a valid tuple, and on the port of that reply.
C5_DialOnlyAfterValidPasv ==
    pconn.st = "open" =>
        /\ pasvRet.n = 1
        /\ pasvRet.err = Nil
        /\ HasPrefix(tres.line, StatusPasv)
        /\ SixNumbers(tres.line)
        /\ LET s == Split(PasvMatch(tres.line)[1])
           IN  pconn.port = DecVal(s[5]) * 256 + DecVal(s[6])

WellFormedInput(in) ==
    in.paren /\ Len(in.fields) = 6 /\ \A i \in 1..6 : in.fields[i] \in 0..255

\* C6: for a 227 reply without a parenthesized tuple, or whose tuple is not six
\* numbers, Pasv fails with PasvBadAnswer.
C6_MalformedTupleRejected ==
    (fnOut.done /\ ~WellFormedInput(fnIn)) => fnOut.err = ErrPasvBadAnswer

\* C7: for a 227 reply carrying (h1,h2,h3,h4,p1,p2), each in 0..255, Pasv
\* returns the port p1*256+p2 and no error, whatever h1..h4 are.
C7_PortFromLastTwo ==
    (fnOut.done /\ WellFormedInput(fnIn)) =>
        /\ fnOut.err = Nil
        /\ fnOut.port = fnIn.fields[5] * 256 + fnIn.fields[6]

C7_Witness ==
    /\ fnOut.done
    /\ fnIn.paren
    /\ fnIn.fields = <<255, 7, 0, 7, 255, 7>>
    /\ fnOut.port = 65287

\* C8: an open data channel is a TLS client with the configuration of the
\* control channel's wrapper when the control channel has been wrapped by
\* AuthTLS, and is not wrapped when it has not.
C8_DataChannelTlsFollowsControl ==
    pconn.st = "open" => pconn.tls = ctls

C8_Witness ==
    /\ pconn.st = "open"
    /\ ctls = "cfgB"
    /\ pconn.tls = "cfgB"
    /\ op \in DataOps

\* The steps of AuthTLS and the status each reply must start with
AuthSteps == <<"send", "recv", "wrap", "send", "recv", "send", "recv">>
AuthWhat == <<"AUTH", "cmd", arg.cfg, "PBSZ", "cmd", "PROT", "cmd">>
AuthExpects == <<NoText, StatusAuth, NoText, NoText, StatusOK, NoText, StatusOK>>

AuthStepDone(i, e) ==
    /\ e.e = AuthSteps[i]
    /\ e.v = AuthWhat[i]
    /\ e.e = "recv" => HasPrefix(e.l, AuthExpects[i])
    /\ e.t = IF i <= 3 THEN OpTr[1].t ELSE arg.cfg

AuthStepFailed(i, e) ==
    \/ AuthSteps[i] = "send" /\ e.e = "sendfail" /\ e.v = AuthWhat[i]
    \/ AuthSteps[i] = "recv" /\ e.e = "recvfail"
    \/ AuthSteps[i] = "recv" /\ e.e = "recv" /\ ~HasPrefix(e.l, AuthExpects[i])
                             /\ err = ErrNew(e.l)

\* C9: AuthTLS does AUTH TLS, wrap, PBSZ 0, PROT P in this order; it wraps only
\* after a 234 reply, sends PBSZ 0 and PROT P over the wrapper only, and a
\* failed step is its last: it then returns an error.
C9_AuthTLSOrder ==
    op = "AuthTLS" =>
        /\ Len(OpTr) <= 7
        /\ \A i \in 1..Len(OpTr) :
            \/ AuthStepDone(i, OpTr[i])
            \/ AuthStepFailed(i, OpTr[i]) /\ i = Len(OpTr) /\ Returned /\ err # Nil
        /\ (Len(OpTr) >= 1 /\ ctls # OpTr[1].t) => (Len(OpTr) >= 3 /\ ctls = arg.cfg)
        /\ (Returned /\ err = Nil) => (Len(OpTr) = 7 /\ AuthStepDone(7, OpTr[7]))

C9_Witness ==
    /\ op = "AuthTLS"
    /\ Returned
    /\ err = Nil
    /\ Len(OpTr) = 7
    /\ ctls = "cfgA"

\* C10: when the reply to USER starts with 230, Login does not send PASS.
C10_NoPassAfter230 ==
    (op = "Login" /\ Len(OpTr) >= 2 /\ OpTr[2].e = "recv"
        /\ HasPrefix(OpTr[2].l, StatusLoggedIn)) =>
        \A i \in 1..Len(OpTr) : OpTr[i].v # "PASS"

RECURSIVE Concat(_)
Concat(ls) == IF ls = <<>> THEN <<>> ELSE Head(ls) \o Concat(Tail(ls))

\* The terminal line of the reply that starts the stream: the first line after
\* the first that starts with the code of the first line and a space (0: none)
TerminalAt(ls) ==
    LET isT(k) == HasPrefix(ls[k], SubSeq(ls[1], 1, 3) \o <<" ">>)
    IN  IF \E k \in 2..Len(ls) : isT(k)
        THEN CHOOSE k \in 2..Len(ls) : isT(k) /\ \A j \in 2..(k - 1) : ~isT(j)
        ELSE 0

ShortLineBefore(ls, k) == \E j \in 2..(k - 1) : Len(ls[j]) < 4

RecvDone == fnOut.pc = "done" /\ fnIn.lines # <<>>

SingleLineReturned ==
    (RecvDone /\ ~IsMultiline(fnIn.lines[1])) =>
        (fnOut.line = fnIn.lines[1] /\ fnOut.err = Nil)

\* C11 as stated: a reply that starts with a continuation line and has a
\* terminal line is returned whole, up to and including the terminal line; a
\* reply whose first line is not a continuation line is returned as that line.
C11_WholeReplyReturned ==
    /\ SingleLineReturned
    /\ (RecvDone /\ IsMultiline(fnIn.lines[1]) /\ TerminalAt(fnIn.lines) # 0) =>
            /\ fnOut.line = Concat(SubSeq(fnIn.lines, 1, TerminalAt(fnIn.lines)))
            /\ fnOut.err = Nil

\* C11, amended: the same for the replies none of whose lines before the
\* terminal line is shorter than four bytes.
C11_WholeReplyReturnedNoShortLine ==
    /\ SingleLineReturned
    /\ (RecvDone /\ IsMultiline(fnIn.lines[1]) /\ TerminalAt(fnIn.lines) # 0
          /\ ~ShortLineBefore(fnIn.lines, TerminalAt(fnIn.lines))) =>
            /\ fnOut.line = Concat(SubSeq(fnIn.lines, 1, TerminalAt(fnIn.lines)))
            /\ fnOut.err = Nil

C11_Witness ==
    /\ fnOut.pc = "done"
    /\ Len(fnIn.lines) = 4
    /\ IsMultiline(fnIn.lines[1])
    /\ TerminalAt(fnIn.lines) = 3
    /\ fnIn.lines[2] = <<" ", "x">> \o CRLF
    /\ fnOut.line = Concat(SubSeq(fnIn.lines, 1, 3))

\* The status prefix each exchange of a navigation or metadata operation expects
NavExpects(o) ==
    CASE o \in {"Cwd", "Rmd", "Dele"} -> <<StatusActionOK>>
      [] o \in {"Mkd", "Pwd"} -> <<StatusPathCreated>>
      [] o = "Rename" -> <<StatusActionPending, StatusActionOK>>
      [] o = "Syst" -> <<StatusSystemType>>
      [] o = "Size" -> <<StatusSize>>
      [] o \in {"Type", "Noop"} -> <<StatusOK>>
      [] o = "Quit" -> <<StatusConnectionClosing>>
      [] OTHER -> <<>>

\* C12: a navigation or metadata operation returns the raw reply as its error
\* exactly when a reply it read does not start with the prefix it expects; a
\* failed send is its last step and its result, no reply being read after it.
C12_NavErrorIsRawReply ==
    op \in NavOps =>
        \A i \in 1..Len(OpTr) :
            LET e == OpTr[i]
            IN  /\ e.e = "sendfail" => (i = Len(OpTr) /\ Returned /\ err = ErrIO)
                /\ e.e = "recv" =>
                    /\ i = 2 * ((i + 1) \div 2)
                    /\ (i \div 2) <= Len(NavExpects(op))
                    /\ IF ~HasPrefix(e.l, NavExpects(op)[i \div 2])
                       THEN i = Len(OpTr) /\ Returned /\ err = ErrNew(e.l)
                       ELSE (i = Len(OpTr) /\ Returned) => err # ErrNew(e.l)

C12_Witness ==
    /\ op = "Rename"
    /\ Returned
    /\ Len(OpTr) = 4
    /\ OpTr[4].e = "recv"
    /\ ~HasPrefix(OpTr[4].l, StatusActionOK)
    /\ err = ErrNew(OpTr[4].l)

OpSent(verb) == {i \in 1..Len(OpTr) : OpTr[i].e \in {"send", "sendfail"} /\ OpTr[i].v = verb}

InitReads == {i \in 1..Len(OpTr) : OpTr[i].e = "recv" /\ OpTr[i].v = "init"}

PasvSends == {i \in 1..Len(tr) : tr[i].by = "task" /\ tr[i].e \in {"send", "sendfail"}}

Dials == {i \in 1..Len(OpTr) : OpTr[i].e \in {"dial", "dialfail"}}

\* C13: List and List2 send MLSD first, and LIST only after an initiating reply
\* to MLSD that does not start with StatusFileOK; they negotiate PASV once and
\* dial once, before LIST; List scans with parseRFC3659ListLine when MLSD was
\* accepted and with parseListLine when LIST was sent.
C13_MlsdThenListFallback ==
    op \in {"List", "List2"} =>
        /\ \A j \in OpSent("LIST") :
            /\ j >= 2
            /\ OpTr[j - 1].e = "recv" /\ OpTr[j - 1].v = "init"
            /\ ~HasPrefix(OpTr[j - 1].l, StatusFileOK)
            /\ \E i \in OpSent("MLSD") : \E d \in Dials : i < d /\ d = j - 2
        /\ \A k \in InitReads :
            (OpSent("LIST") = {} /\ ~HasPrefix(OpTr[k].l, StatusFileOK)) => k = Len(OpTr)
        /\ Cardinality(OpSent("MLSD")) <= 1
        /\ Cardinality(OpSent("LIST")) <= 1
        /\ Cardinality(PasvSends) <= 1
        /\ Cardinality(Dials) <= 1
        /\ \A i \in OpSent("MLSD") : PasvSends # {} /\ i = 3
        /\ \A i \in 1..Len(OpTr) :
            (op = "List" /\ OpTr[i].e \in {"data", "datafail"}) =>
                OpTr[i].v = IF OpSent("LIST") = {} THEN "parseRFC3659ListLine"
                            ELSE "parseListLine"

C13_Witness ==
    /\ op = "List"
    /\ Returned
    /\ OpSent("LIST") # {}
    /\ \E i \in 1..Len(OpTr) : OpTr[i].e = "data" /\ OpTr[i].v = "parseListLine"

\* C15: parseListLine calls the parsers in the order RFC-3659, Unix ls, DOS DIR,
\* hostedftp, returns the outcome of the first that does not answer
\* errUnsupportedListLine without calling a later one, answers
\* errUnsupportedListLine only when all four did, and returns an Entry exactly
\* when it returns a nil error.
C15_FirstDefinitiveParserWins ==
    /\ fnOut.calls = SubSeq(listLineParsers, 1, Len(fnOut.calls))
    /\ \A j \in 1..(Len(fnOut.calls) - 1) :
            CallParser(listLineParsers[j], fnIn).err = ErrUnsupportedListLine
    /\ fnOut.done =>
        /\ fnOut.r.e.nil <=> fnOut.r.err # Nil
        /\ fnOut.r = parseListLine(fnIn)
        /\ IF fnOut.r.err = ErrUnsupportedListLine
           THEN /\ fnOut.calls = listLineParsers
                /\ \A j \in 1..Len(listLineParsers) :
                        CallParser(listLineParsers[j], fnIn).err = ErrUnsupportedListLine
           ELSE /\ fnOut.r = CallParser(fnOut.calls[Len(fnOut.calls)], fnIn)
                /\ fnOut.r.e.nil => fnOut.r.e = NilEntry

\* a hostedftp line: the Unix parser answers unsupported, the last parser an entry
C15_Witness ==
    /\ fnOut.done
    /\ fnIn = Chars("-rw-r--r-- 0 user group 1024 Jan 1 00:00 file.txt")
    /\ fnOut.calls = listLineParsers
    /\ fnOut.r.err = Nil
    /\ fnOut.r.e.Name = Chars("file.txt")
    /\ fnOut.r.e.Size = 1024

\* The entries of the lines the parser accepts, in the order of the lines
RECURSIVE Accepted(_, _)
Accepted(f, ls) ==
    IF ls = <<>> THEN <<>>
    ELSE LET r == Parser(f, Head(ls))
         IN  (IF r.err = Nil THEN <<r.e>> ELSE <<>>) \o Accepted(f, Tail(ls))

\* C14: when the scanner reaches the end of the listing, List returns no error
\* and exactly the entries of the lines its parser accepted, in the order of
\* the lines; a rejected line adds nothing and ends nothing.
C14_RejectedLinesSkipped ==
    /\ fnOut.entries = Accepted(fnIn.parser, SubSeq(fnIn.lines, 1, fnOut.i - 1))
    /\ (fnOut.done /\ ~fnIn.readErr) =>
        /\ fnOut.err = Nil
        /\ fnOut.i = Len(fnIn.lines) + 1
        /\ fnOut.ret = Accepted(fnIn.parser, fnIn.lines)

\* a listing whose second line is unsupported and whose third has a hard date error
C14_Witness ==
    /\ fnOut.done
    /\ ~fnIn.readErr
    /\ fnIn.parser = "parseListLine"
    /\ fnIn.lines = <<Chars("total 12"),
                      Chars("-rw-r--r-- 1 user group 1024 Jan 1 99 old.txt"),
                      Chars("-rw-r--r-- 1 user group 1024 Jan 1 00:00 file.txt")>>
    /\ Len(fnOut.ret) = 1
    /\ fnOut.ret[1].Name = Chars("file.txt")

-----------------------------------------------------------------------------
(* Walk *)

RECURSIVE FilesIn(_, _)
\* The full paths of the files a listing holds, in its order
FilesIn(path, es) ==
    IF es = <<>> THEN <<>>
    ELSE (IF Head(es).kind = "file" THEN <<path \o Head(es).name>> ELSE <<>>)
         \o FilesIn(path, Tail(es))

RECURSIVE DepthFirstFrom(_, _)
\* The files of the tree under /a/, a sub-directory's files at its place in the listing
DepthFirstFrom(in, es) ==
    IF es = <<>> THEN <<>>
    ELSE (IF Head(es).kind = "file" THEN <<RootPath \o Head(es).name>>
          ELSE IF Head(es) = DirEntry("b") THEN FilesIn(SubPath, in.sub)
          ELSE <<>>)
         \o DepthFirstFrom(in, Tail(es))

DepthFirst == DepthFirstFrom(fnIn, fnIn.root)

Range(s) == {s[i] : i \in 1..Len(s)}
NoRepeat(s) == \A i \in 1..Len(s) : \A j \in 1..Len(s) : i # j => s[i] # s[j]
IsPrefix(s, t) == Len(s) <= Len(t) /\ s = SubSeq(t, 1, Len(s))

WalkSucceeded == fnOut.done /\ fnOut.fail = Nil

\* C16: a Walk that met no failure has visited every file of the tree, at
\* any depth, exactly once under its full path, and nothing else; it has
\* listed no "." or ".." directory; and that whichever of MLSD and LIST
\* produced the raw lines.
C16_EveryFileVisitedOnce ==
    WalkSucceeded =>
        /\ Range(fnOut.visits) = Range(DepthFirst)
        /\ NoRepeat(fnOut.visits)
        /\ \A i \in 1..Len(fnOut.lists) :
              fnOut.lists[i] \in {RootPath, SubPath}

\* The tree of the scenario: /a/ holds the folder b and the file c.txt, in
\* either order of listing, and /a/b/ holds the file d.txt.
Scenario ==
    /\ Len(fnIn.root) = 2
    /\ Range(fnIn.root) = {DirEntry("b"), FileEntry("c.txt")}
    /\ fnIn.sub = <<FileEntry("d.txt")>>

PathC == Chars("/a/c.txt")
PathD == Chars("/a/b/d.txt")

C18_FailureAbortsWalk ==
    /\ [](fnOut.done => fnOut.err = fnOut.fail)
    /\ [][fnOut.fail # Nil =>
            /\ fnOut'.visits = fnOut.visits
            /\ fnOut'.lists = fnOut.lists]_vars

C18_Witness ==
    /\ fnOut.done
    /\ fnOut.err = ErrVisit
    /\ fnOut.visits = <<PathD>>
    /\ DepthFirst = <<PathD, PathC>>

-----------------------------------------------------------------------------
(* The data channel *)

DataUses == {i \in 1..Len(OpTr) : OpTr[i].e \in {"data", "datafail"}}

Closes == {i \in 1..Len(OpTr) : OpTr[i].e = "close"}

Opens == {i \in 1..Len(OpTr) : OpTr[i].e = "dial"}

\* C19: an operation that returns leaves no data channel open; it reads the
\* final reply only after it closed the channel it dialed; it transfers only
\* on a channel it dialed itself and has not closed, dials at most once, and
\* holds no open channel before its own dial.
C19_DataChannelClosedNotReused ==
    /\ (Returned /\ op \in DataOps) => pconn.st # "open"
    /\ \A i \in FinalReads : \E j \in Closes : j < i /\ \E k \in Opens : k < j
    /\ \A i \in DataUses :
          /\ \E k \in Opens : k < i
          /\ \A j \in Closes : i < j
    /\ Cardinality(Opens) <= 1
    /\ Opens = {} => pconn.st # "open"

C19_Witness ==
    /\ op = "Stor"
    /\ Returned
    /\ err = ErrIO
    /\ Opens # {}
    /\ OpTr[Len(OpTr)].e = "datafail"
    /\ pconn.st = "closed"

-----------------------------------------------------------------------------
(* REST *)

\* C20: in RetrFrom and StorFrom the RETR or STOR command is written right
\* after a REST command that was written, REST carries the decimal text of
\* the caller's offset, is written once, after Pasv returned the port of
\* the PASV reply its task read, and before the dial.
C20_RestBeforeTransferCommand ==
    op \in {"RetrFrom", "StorFrom"} =>
        /\ \A i \in OpSent("RETR") \cup OpSent("STOR") :
              /\ i > 1
              /\ OpTr[i - 1].e = "send"
              /\ OpTr[i - 1].v = "REST"
        /\ \A i \in OpSent("REST") :
              /\ OpTr[i].l = Itoa(arg.off)
              /\ DecVal(OpTr[i].l) = arg.off
              /\ pasvRet.n = 1
              /\ pasvRet.err = Nil
              /\ \A k \in Dials : i < k
              /\ \A j \in OpSent("RETR") \cup OpSent("STOR") : i < j
        /\ Cardinality(OpSent("REST")) <= 1
        /\ Dials # {} => OpSent("REST") # {}

C20_Witness ==
    /\ op = "StorFrom"
    /\ arg.off = 12
    /\ Returned
    /\ err = Nil
    /\ OpSent("REST") # {}
    /\ OpSent("STOR") # {}
    /\ Opens # {}

-----------------------------------------------------------------------------
(* setTime *)

\* The fields name a time of day, and setTime returned no error
ClockGiven == fnOut.done /\ fnOut.err = Nil /\ IndexOf(fnIn.fields[3], ":") # 0

\* The date of the fields placed in the year of now
InYearOfNow ==
    ParseLsTime(fnIn.fields[2], fnIn.fields[1], Itoa(fnIn.now.y), fnIn.fields[3]).t

\* C21: for fields with a time of day setTime gives the date in the year of
\* now, moved to the year before, month, day and clock unchanged, exactly
\* when that date is not before now + 6 months; the time it gives is before
\* now + 6 months.
C21_YearCorrection ==
    ClockGiven =>
        /\ fnOut.t = IF Before(InYearOfNow, AddDate(fnIn.now, 0, 6)) THEN InYearOfNow
                     ELSE [InYearOfNow EXCEPT !.y = @ - 1]
        /\ Before(fnOut.t, AddDate(fnIn.now, 0, 6))

C21_Witness ==
    /\ ClockGiven
    /\ fnIn.now = Date(2023, 6, 15, 12, 0, 0)
    /\ fnIn.fields = <<Chars("Dec"), Chars("15"), Chars("12:00")>>
    /\ fnOut.t = Date(2022, 12, 15, 12, 0, 0)

-----------------------------------------------------------------------------
(* Alignment of replies and commands *)

\* The last command written before the i-th event of the trace (0: none)
LastSendBefore(i) ==
    IF \E j \in 1..(i - 1) : tr[j].e = "send"
    THEN CHOOSE j \in 1..(i - 1) : tr[j].e = "send" /\ \A k \in (j + 1)..(i - 1) : tr[k].e # "send"
    ELSE 0

\* C22: a reply read as the final reply is a completion reply, and every
\* other reply read is one the server sends for the command written last
\* before the read; no reply of an earlier command or transfer is taken for it.
C22_RepliesAligned ==
    \A i \in 1..Len(tr) :
        tr[i].e = "recv" =>
            IF tr[i].v = "final" THEN tr[i].l \in Completions
            ELSE /\ LastSendBefore(i) # 0
                 /\ tr[i].l \in Replies(Cmd(tr[LastSendBefore(i)].v, tr[LastSendBefore(i)].l))

-----------------------------------------------------------------------------
(* Draining *)

\* The step reads an initiating reply
ReadsInitiatingReply ==
    /\ Len(tr') = Len(tr) + 1
    /\ tr'[Len(tr')].by = "op"
    /\ tr'[Len(tr')].e = "recv"
    /\ tr'[Len(tr')].v = "init"

\* C23: the read of the initiating reply of a transfer or listing command
\* takes that reply alone and leaves buffered whatever had arrived behind it,
\* such as the completion reply.
C23_InitiatingReplyNotDrained ==
    [][ReadsInitiatingReply => buf' = IF buf # <<>> THEN Tail(buf) ELSE Tail(net)]_vars

-----------------------------------------------------------------------------
(* Malformed termination of a multi-line reply *)

\* The line at which the loop of receive stops: the first line after the
\* first that is shorter than four bytes or starts with the closing code
\* (0: none before the stream ends)
StopAt(ls) ==
    LET stops(k) == Len(ls[k]) < 4 \/ HasPrefix(ls[k], SubSeq(ls[1], 1, 3) \o <<" ">>)
    IN  IF \E k \in 2..Len(ls) : stops(k)
        THEN CHOOSE k \in 2..Len(ls) : stops(k) /\ \A j \in 2..(k - 1) : ~stops(j)
        ELSE 0

MultilineDone == RecvDone /\ IsMultiline(fnIn.lines[1])

\* The returns on a short line and at the end of the stream
SoftFailure(ls, out, discard) ==
    IF StopAt(ls) = 0
    THEN out.err = ErrIO /\ out.line = Concat(ls)
    ELSE Len(ls[StopAt(ls)]) < 4 =>
            /\ out.err = Nil
            /\ out.line = Concat(SubSeq(ls, 1, StopAt(ls)))
            /\ ~discard => out.rest = SubSeq(ls, StopAt(ls) + 1, Len(ls))

\* C24: receive and receiveNoDiscard return at the first line of fewer than
\* four bytes of a multi-line reply, with the text up to that line and no
\* error, the lines behind it unread; at the end of the stream they return
\* the text read with the read failure; and they always return.
C24_SoftFailure ==
    /\ [](MultilineDone => SoftFailure(fnIn.lines, fnOut, fnIn.discard))
    /\ <>(fnOut.pc = "done")

C24_Witness ==
    /\ MultilineDone
    /\ ~fnIn.discard
    /\ Len(fnIn.lines) = 4
    /\ fnIn.lines[2] = CRLF
    /\ fnOut.err = Nil
    /\ fnOut.line = fnIn.lines[1] \o CRLF
    /\ Len(fnOut.rest) = 2

-----------------------------------------------------------------------------
(* A transfer command answered with a failure reply *)

\* The caller has read, as the reply that follows its RETR or STOR, a reply
\* that does not start with StatusFileOK but with a failure code
FailureReplyToTransfer(i) ==
    /\ op \in TransferOps
    /\ tr[i].by = "op" /\ tr[i].e = "recv" /\ tr[i].v = "init"
    /\ tr[i].l = Err500
    /\ LastSendBefore(i) # 0
    /\ tr[LastSendBefore(i)].v \in {"RETR", "STOR"}

\* C25: when the reply read after RETR or STOR is a failure reply, the
\* operation returns at once with an error that carries the text of that
\* reply: no transfer is run and no further reply is awaited.
C25_FailureReplyReturned ==
    \A i \in 1..Len(tr) :
        FailureReplyToTransfer(i) =>
            /\ pc = "done"
            /\ err = ErrNew(tr[i].l)
            /\ \A j \in (i + 1)..Len(tr) : tr[j].by # "op"

-----------------------------------------------------------------------------
(* The background task of Pasv *)

\* The caller is inside Pasv, past the start of the task
InPasvSelect == pc \in {"select", "pasv_close", "pasv_return"}

TaskRunning == task \in {"send", "recv", "assign", "parse", "signal"}

\* C26: the completion signal of the task finds the channel's one slot free
\* (it never blocks), a task that was started ends, also after the caller took
\* the timeout branch and returned, and the caller leaves Pasv whatever the
\* task and the server do.
C26_TaskEndsCallerReturns ==
    /\ [](task = "signal" => doneChan = 0)
    /\ TaskRunning ~> (task = "end")
    /\ InPasvSelect ~> ~InPasvSelect

\* The caller has returned by the timeout branch while the task was reading;
\* the read failed on the closed connection and the task has signalled.
C26_Witness ==
    /\ pc = "done"
    /\ pasvRet.timeout
    /\ conn = "closed"
    /\ task = "end"
    /\ doneChan = 1
    /\ \E i \in 1..Len(tr) : tr[i].by = "task" /\ tr[i].e = "recvfail"

====
